---- MODULE Spec2Model ----
(***************************************************************************)
(* Agent registry (useAgents), chat session manager (useChat), evaluation   *)
(* engine (useEvaluation), judge (evaluateTestCase), playgrounds            *)
(* (usePlayground, AgentEditor) and test lab (TestLab) of the agent         *)
(* console, modelled as state machines.                                    *)
(*                                                                         *)
(* A React state setter `setX(prev => f(prev))` is one atomic step on the  *)
(* hook's state; every handler is one action, every stream callback is     *)
(* one action of the stream it belongs to.  Timestamps that no operation   *)
(* reads (PromptVersion.timestamp, Message.timestamp) are left out of the  *)
(* records; Session.lastModified and the ids taken from Date.now() are     *)
(* kept.                                                                   *)
(***************************************************************************)
EXTENDS Integers, Sequences, FiniteSets, TLC

VARIABLES agents, agentsSlot, regLast, regOps,
          chatOps, sessions, currentSessionId, isStreaming, suggestions,
          isGeneratingSuggestions, streams, now, chatLast,
          suites, runs, isRunning, baseUrl, evalProcs, remote, evalOps, evalLast,
          judge, playSessions, currentPlaySessionId, isPlayStreaming, playStreams,
          editorMessages, editorStreaming, editorStreams, form,
          labIsRunning, labResults, labProcs

regVars == <<agents, agentsSlot, regLast, regOps>>
chatVars == <<chatOps, sessions, currentSessionId, isStreaming, suggestions,
              isGeneratingSuggestions, streams, now, chatLast>>
evalVars == <<suites, runs, isRunning, baseUrl, evalProcs, remote, evalOps, evalLast>>
vars == <<agents, agentsSlot, regLast, regOps,
          chatOps, sessions, currentSessionId, isStreaming, suggestions,
          isGeneratingSuggestions, streams, now, chatLast,
          suites, runs, isRunning, baseUrl, evalProcs, remote, evalOps, evalLast,
          judge, playSessions, currentPlaySessionId, isPlayStreaming, playStreams,
          editorMessages, editorStreaming, editorStreams, form,
          labIsRunning, labResults, labProcs>>

playVars == <<playSessions, currentPlaySessionId, isPlayStreaming, playStreams>>
editorVars == <<editorMessages, editorStreaming, editorStreams, form>>
labVars == <<labIsRunning, labResults, labProcs>>
toolVars == <<judge, playVars, editorVars, labVars>>

(***************************************************************************)
(* Bounds                                                                  *)
(***************************************************************************)
MaxAgents == 2
MaxRegOps == 6
MaxClock == 3
MaxChatOps == 4
MaxEvalOps == 2

(***************************************************************************)
(* Values                                                                  *)
(***************************************************************************)
\* `undefined` as the value of an optional property
Undefined == [undefined |-> TRUE]

DefaultInstruction == "You are a helpful assistant."
InstructionVals == {"", DefaultInstruction, "Be brief."}
ChangeLogVals == {"", "tuned"}
AgentIds == 1..MaxAgents
VersionNumbers == {2, 3}
TestCaseVals == {<<>>, <<[id |-> "t1", input |-> "hi", expectedOutput |-> ""]>>}

\* the three properties the editor passes to saveDraft
DraftKeys == {"name", "description", "systemInstruction"}

\* the objects the editor form passes to saveDraft: the instruction cleared, the
\* instruction rewritten, name and description rewritten
DraftUpdateVals ==
    { [name |-> "New Agent", description |-> "Custom agent", systemInstruction |-> ""],
      [name |-> "New Agent", description |-> "Custom agent",
       systemInstruction |-> "Be brief."],
      [name |-> "Renamed", description |-> "Edited",
       systemInstruction |-> DefaultInstruction] }

\* {...a, ...b}
Merge(a, b) == [k \in (DOMAIN a) \cup (DOMAIN b) |-> IF k \in DOMAIN b THEN b[k] ELSE a[k]]

\* JavaScript truthiness of a string
Truthy(s) == s # ""

HasDraft(agent) == agent.draftConfig # Undefined

\* the agent object the admin dashboard's "new agent" button builds
NewAgent(id) ==
    [ id |-> id,
      name |-> "New Agent",
      description |-> "Custom agent",
      systemInstruction |-> DefaultInstruction,
      model |-> "gemini-2.5-flash",
      promptVersions |-> <<>>,
      currentVersion |-> 1,
      testCases |-> Undefined,
      draftConfig |-> Undefined ]

KnownIds == {agents[i].id : i \in 1..Len(agents)}

(***************************************************************************)
(* useAgents operations                                                    *)
(***************************************************************************)
\* mutant: the updates are written to the live agent as well as to the draft
SaveDraftAgent_WritesLive(agent, id, draftUpdates) ==
    IF agent.id # id THEN agent
    ELSE [agent EXCEPT !.name = draftUpdates.name,
                       !.description = draftUpdates.description,
                       !.systemInstruction = draftUpdates.systemInstruction,
                       !.draftConfig = draftUpdates]

SaveDraftAgent(agent, id, draftUpdates) ==
    IF agent.id # id THEN agent
    ELSE LET currentDraft ==
                 IF HasDraft(agent) THEN agent.draftConfig
                 ELSE [ name |-> agent.name,
                        description |-> agent.description,
                        systemInstruction |-> agent.systemInstruction ]
         IN [agent EXCEPT !.draftConfig = Merge(currentDraft, draftUpdates)]

DiscardDraftAgent(agent, id) ==
    IF agent.id # id THEN agent
    ELSE [agent EXCEPT !.draftConfig = Undefined]

\* mutant: the draft's description is not copied to the live agent
ApplyDraft_DropsDescription(agent, draft) ==
    [agent EXCEPT
       !.name = IF "name" \in DOMAIN draft THEN draft["name"] ELSE @,
       !.systemInstruction = IF "systemInstruction" \in DOMAIN draft
                             THEN draft["systemInstruction"] ELSE @]

\* { ...agent, ...draft }: every property the draft holds is written to the agent
ApplyDraft(agent, draft) == Merge(agent, draft)

\* draft.systemInstruction && draft.systemInstruction !== agent.systemInstruction
PromptChanged(agent, draft) ==
    /\ "systemInstruction" \in DOMAIN draft
    /\ Truthy(draft["systemInstruction"])
    /\ draft["systemInstruction"] # agent.systemInstruction

\* mutant: a publish without a draft still counts as a publish event
PublishDraftAgent_NoDraftBumps(agent, id, changeLog) ==
    IF agent.id # id THEN agent
    ELSE IF ~HasDraft(agent) THEN [agent EXCEPT !.currentVersion = @ + 1]
    ELSE LET draft == agent.draftConfig
             newVersionNumber == agent.currentVersion + 1
             versionEntry == [ version |-> newVersionNumber,
                               systemInstruction |-> draft["systemInstruction"],
                               changeLog |-> IF Truthy(changeLog) THEN changeLog
                                             ELSE "Published from draft",
                               author |-> "Admin" ]
             newVersions == IF PromptChanged(agent, draft)
                            THEN <<versionEntry>> \o agent.promptVersions
                            ELSE agent.promptVersions
         IN [ApplyDraft(agent, draft) EXCEPT
                !.currentVersion = newVersionNumber,
                !.promptVersions = newVersions,
                !.draftConfig = Undefined]

\* mutant: the version number moves only when the prompt changed
PublishDraftAgent_BumpsOnPromptOnly(agent, id, changeLog) ==
    IF agent.id # id \/ ~HasDraft(agent) THEN agent
    ELSE LET draft == agent.draftConfig
             newVersionNumber == IF PromptChanged(agent, draft)
                                 THEN agent.currentVersion + 1
                                 ELSE agent.currentVersion
             versionEntry == [ version |-> newVersionNumber,
                               systemInstruction |-> draft["systemInstruction"],
                               changeLog |-> IF Truthy(changeLog) THEN changeLog
                                             ELSE "Published from draft",
                               author |-> "Admin" ]
             newVersions == IF PromptChanged(agent, draft)
                            THEN <<versionEntry>> \o agent.promptVersions
                            ELSE agent.promptVersions
         IN [ApplyDraft(agent, draft) EXCEPT
                !.currentVersion = newVersionNumber,
                !.promptVersions = newVersions,
                !.draftConfig = Undefined]

\* mutant: the new entry is put at the end of the history
PublishDraftAgent_Appends(agent, id, changeLog) ==
    IF agent.id # id \/ ~HasDraft(agent) THEN agent
    ELSE LET draft == agent.draftConfig
             newVersionNumber == agent.currentVersion + 1
             versionEntry == [ version |-> newVersionNumber,
                               systemInstruction |-> draft["systemInstruction"],
                               changeLog |-> IF Truthy(changeLog) THEN changeLog
                                             ELSE "Published from draft",
                               author |-> "Admin" ]
             newVersions == IF PromptChanged(agent, draft)
                            THEN agent.promptVersions \o <<versionEntry>>
                            ELSE agent.promptVersions
         IN [ApplyDraft(agent, draft) EXCEPT
                !.currentVersion = newVersionNumber,
                !.promptVersions = newVersions,
                !.draftConfig = Undefined]

\* mutant: the entry gets the new number but currentVersion is left as it was
PublishDraftAgent_StaleNumber(agent, id, changeLog) ==
    IF agent.id # id \/ ~HasDraft(agent) THEN agent
    ELSE LET draft == agent.draftConfig
             newVersionNumber == agent.currentVersion + 1
             versionEntry == [ version |-> newVersionNumber,
                               systemInstruction |-> draft["systemInstruction"],
                               changeLog |-> IF Truthy(changeLog) THEN changeLog
                                             ELSE "Published from draft",
                               author |-> "Admin" ]
             newVersions == IF PromptChanged(agent, draft)
                            THEN <<versionEntry>> \o agent.promptVersions
                            ELSE agent.promptVersions
         IN [ApplyDraft(agent, draft) EXCEPT
                !.promptVersions = newVersions,
                !.draftConfig = Undefined]

\* mutant: the history keeps only the entry just published
PublishDraftAgent_DropsHistory(agent, id, changeLog) ==
    IF agent.id # id \/ ~HasDraft(agent) THEN agent
    ELSE LET draft == agent.draftConfig
             newVersionNumber == agent.currentVersion + 1
             versionEntry == [ version |-> newVersionNumber,
                               systemInstruction |-> draft["systemInstruction"],
                               changeLog |-> IF Truthy(changeLog) THEN changeLog
                                             ELSE "Published from draft",
                               author |-> "Admin" ]
             newVersions == IF PromptChanged(agent, draft)
                            THEN <<versionEntry>>
                            ELSE agent.promptVersions
         IN [ApplyDraft(agent, draft) EXCEPT
                !.currentVersion = newVersionNumber,
                !.promptVersions = newVersions,
                !.draftConfig = Undefined]

PublishDraftAgent(agent, id, changeLog) ==
    IF agent.id # id \/ ~HasDraft(agent) THEN agent
    ELSE LET draft == agent.draftConfig
             newVersionNumber == agent.currentVersion + 1
             versionEntry == [ version |-> newVersionNumber,
                               systemInstruction |-> draft["systemInstruction"],
                               changeLog |-> IF Truthy(changeLog) THEN changeLog
                                             ELSE "Published from draft",
                               author |-> "Admin" ]
             newVersions == IF PromptChanged(agent, draft)
                            THEN <<versionEntry>> \o agent.promptVersions
                            ELSE agent.promptVersions
         IN [ApplyDraft(agent, draft) EXCEPT
                !.currentVersion = newVersionNumber,
                !.promptVersions = newVersions,
                !.draftConfig = Undefined]

\* mutant: the id is not compared, every agent gets the new test cases
UpdateTestCasesAgent_AnyId(agent, id, testCases) ==
    [agent EXCEPT !.testCases = testCases]

UpdateTestCasesAgent(agent, id, testCases) ==
    IF agent.id # id THEN agent
    ELSE [agent EXCEPT !.testCases = testCases]

\* promptVersions.find(v => v.version === versionNumber): index of the first match, 0 if none
FindVersion(agent, versionNumber) ==
    LET hits == {i \in 1..Len(agent.promptVersions) :
                    agent.promptVersions[i].version = versionNumber}
    IN IF hits = {} THEN 0 ELSE CHOOSE i \in hits : \A j \in hits : i <= j

\* mutant: the restored draft replaces the pending draft instead of merging into it
RestoreVersionAgent_ReplacesDraft(agent, agentId, versionNumber) ==
    IF agent.id # agentId THEN agent
    ELSE LET t == FindVersion(agent, versionNumber)
         IN IF t = 0 THEN agent
            ELSE [agent EXCEPT !.draftConfig =
                     [systemInstruction |->
                         agent.promptVersions[t].systemInstruction]]

RestoreVersionAgent(agent, agentId, versionNumber) ==
    IF agent.id # agentId THEN agent
    ELSE LET t == FindVersion(agent, versionNumber)
         IN IF t = 0 THEN agent
            ELSE [agent EXCEPT !.draftConfig =
                     Merge(IF HasDraft(agent) THEN agent.draftConfig ELSE <<>>,
                           [systemInstruction |->
                               agent.promptVersions[t].systemInstruction])]

\* localStorage.getItem for a key that was never written
NoItem == [null |-> TRUE]

\* the properties of an agent that can hold undefined
OptionalKeys == {"testCases", "draftConfig"}

\* v === undefined, for a value of any type
IsUndefined(v) == ToString(v) = ToString(Undefined)

\* JSON.stringify of one agent: a property whose value is undefined is left out
StringifyAgent(agent) ==
    [k \in {key \in DOMAIN agent : key \in OptionalKeys => ~IsUndefined(agent[key])} |->
        agent[k]]

\* JSON.stringify(agents), the text kept as the JSON value it denotes
Stringify(list) == [i \in 1..Len(list) |-> StringifyAgent(list[i])]

\* the save effect: if (agents.length > 0) localStorage.setItem(STORAGE_KEY, ...)
SavedSlot(slot, list) ==
    IF Len(list) > 0 THEN [json |-> Stringify(list)] ELSE slot

\* the load effect: JSON.parse(saved), the defaults when the key holds nothing
LoadAgents(slot) ==
    IF slot = NoItem THEN <<NewAgent(1)>> ELSE slot.json

\* one call of an operation of the hook, the save effect that follows the render
\* included
RegStep(op, id, arg) ==
    /\ regOps < MaxRegOps
    /\ regOps' = regOps + 1
    /\ regLast' = [op |-> op, id |-> id, arg |-> arg]
    /\ agentsSlot' = SavedSlot(agentsSlot, agents')

saveDraft ==
    \E id \in AgentIds, draftUpdates \in DraftUpdateVals :
        /\ agents' = [i \in 1..Len(agents) |-> SaveDraftAgent(agents[i], id, draftUpdates)]
        /\ RegStep("saveDraft", id, 0)
        /\ UNCHANGED <<chatVars, evalVars, toolVars>>

\* Partial<AgentConfig> values a caller of the hook can pass to saveDraft besides
\* the three properties of the editor form
PartialAgentVals ==
    { [name |-> "Renamed", description |-> "Edited", systemInstruction |-> "Be brief."],
      [systemInstruction |-> "Be brief.", model |-> "gemini-2.5-pro"] }

\* saveDraft called with any Partial<AgentConfig>
hookSaveDraft ==
    \E id \in AgentIds, draftUpdates \in PartialAgentVals :
        /\ agents' = [i \in 1..Len(agents) |-> SaveDraftAgent(agents[i], id, draftUpdates)]
        /\ RegStep("saveDraft", id, 0)
        /\ UNCHANGED <<chatVars, evalVars, toolVars>>

discardDraft ==
    \E id \in AgentIds :
        /\ agents' = [i \in 1..Len(agents) |-> DiscardDraftAgent(agents[i], id)]
        /\ RegStep("discardDraft", id, 0)
        /\ UNCHANGED <<chatVars, evalVars, toolVars>>

publishDraft ==
    \E id \in AgentIds, changeLog \in ChangeLogVals :
        /\ agents' = [i \in 1..Len(agents) |-> PublishDraftAgent(agents[i], id, changeLog)]
        /\ RegStep("publishDraft", id, 0)
        /\ UNCHANGED <<chatVars, evalVars, toolVars>>

updateTestCases ==
    \E id \in AgentIds, testCases \in TestCaseVals :
        /\ agents' = [i \in 1..Len(agents) |-> UpdateTestCasesAgent(agents[i], id, testCases)]
        /\ RegStep("updateTestCases", id, 0)
        /\ UNCHANGED <<chatVars, evalVars, toolVars>>

restoreVersion ==
    \E agentId \in AgentIds, versionNumber \in VersionNumbers :
        /\ agents' = [i \in 1..Len(agents) |-> RestoreVersionAgent(agents[i], agentId, versionNumber)]
        /\ RegStep("restoreVersion", agentId, versionNumber)
        /\ UNCHANGED <<chatVars, evalVars, toolVars>>

\* the dashboard takes the id from the clock: it is new to the registry
createAgent ==
    \E id \in AgentIds :
        /\ Len(agents) < MaxAgents
        /\ id \notin KnownIds
        /\ \A k \in KnownIds : k < id
        /\ agents' = Append(agents, NewAgent(id))
        /\ RegStep("createAgent", id, 0)
        /\ UNCHANGED <<chatVars, evalVars, toolVars>>

deleteAgent ==
    \E id \in AgentIds :
        /\ agents' = SelectSeq(agents, LAMBDA a : a.id # id)
        /\ RegStep("deleteAgent", id, 0)
        /\ UNCHANGED <<chatVars, evalVars, toolVars>>

(***************************************************************************)
(* useChat: sessions, messages and streams                                 *)
(***************************************************************************)
UserTexts == {"hello"}
EditTexts == {"hello again"}
ChunkTexts == {"par"}
FullTexts == {"partial and rest"}
ErrorMessages == {"network down"}
FeedbackVals == {"up", "down"}

\* `Error: ${error.message}`
ErrorText(msg) == IF msg = "network down" THEN "Error: network down" ELSE "Error: "

\* ids and timestamps are readings of Date.now()
Times == 1..(MaxClock + 1)

\* Date.now() does not go back: the same millisecond as the last reading or a later one
ClockReadings == {t \in {now, now + 1} : t <= MaxClock}

RemoveAt(seq, p) == SubSeq(seq, 1, p - 1) \o SubSeq(seq, p + 1, Len(seq))

\* sessions.find(s => s.id === id): position of the first match, 0 if none
FindSession(ss, id) ==
    LET hits == {i \in 1..Len(ss) : ss[i].id = id}
    IN IF hits = {} THEN 0 ELSE CHOOSE i \in hits : \A j \in hits : i <= j

\* messages.findIndex(m => m.id === messageId): position of the first match, 0 if none
FindMessage(msgs, messageId) ==
    LET hits == {i \in 1..Len(msgs) : msgs[i].id = messageId}
    IN IF hits = {} THEN 0 ELSE CHOOSE i \in hits : \A j \in hits : i <= j

\* the derived `messages` of the current session
CurrentMessages ==
    LET i == FindSession(sessions, currentSessionId)
    IN IF i = 0 THEN <<>> ELSE sessions[i].messages

\* updateSessionMessages as a function of the previous session list
UpdateSessionMessages(prev, sessionId, newMessages, t) ==
    LET sessionIndex == FindSession(prev, sessionId)
    IN IF sessionIndex = 0 THEN prev
       ELSE LET updatedSession == [prev[sessionIndex] EXCEPT !.messages = newMessages,
                                                              !.lastModified = t]
                otherSessions == SelectSeq(prev, LAMBDA x : x.id # sessionId)
            IN <<updatedSession>> \o otherSessions

\* the chunk callback's prev.map(...): the message agentMsgId of every session
\* sessionId gets the chunk as its text, the session a new lastModified
WriteChunk(prev, sessionId, agentMsgId, chunkText, t) ==
    [i \in 1..Len(prev) |->
        IF prev[i].id = sessionId
        THEN [prev[i] EXCEPT
                !.messages = [j \in 1..Len(prev[i].messages) |->
                                 IF prev[i].messages[j].id = agentMsgId
                                 THEN [prev[i].messages[j] EXCEPT !.text = chunkText]
                                 ELSE prev[i].messages[j]],
                !.lastModified = t]
        ELSE prev[i]]

\* the terminal callbacks' prev.map(...): the message agentMsgId of every session
\* sessionId gets the text and the streaming flag, the session a new lastModified
WriteStreamMessage(prev, sessionId, agentMsgId, text, streaming, t) ==
    [i \in 1..Len(prev) |->
        IF prev[i].id = sessionId
        THEN [prev[i] EXCEPT
                !.messages = [j \in 1..Len(prev[i].messages) |->
                                 IF prev[i].messages[j].id = agentMsgId
                                 THEN [prev[i].messages[j] EXCEPT !.text = text,
                                                                   !.isStreaming = streaming]
                                 ELSE prev[i].messages[j]],
                !.lastModified = t]
        ELSE prev[i]]

UserMessage(id, text) ==
    [id |-> id, role |-> "user", text |-> text, isStreaming |-> FALSE, feedback |-> "none"]

PlaceholderMessage(id) ==
    [id |-> id, role |-> "model", text |-> "", isStreaming |-> TRUE, feedback |-> "none"]

\* a splice that always removes the one message at msgIndex
DeleteAt_OnlyTarget(msgs, msgIndex) ==
    SubSeq(msgs, 1, msgIndex - 1) \o SubSeq(msgs, msgIndex + 1, Len(msgs))

\* splice of handleDeleteMessage: the messages left after deleting position msgIndex
DeleteAt(msgs, msgIndex) ==
    LET msg == msgs[msgIndex]
        first == CASE msg.role = "user" -> msgIndex
                   [] msg.role = "model" /\ msgIndex > 1 /\ msgs[msgIndex - 1].role = "user"
                        -> msgIndex - 1
                   [] OTHER -> msgIndex
        count == CASE msg.role = "user" /\ msgIndex < Len(msgs) /\ msgs[msgIndex + 1].role = "model"
                        -> 2
                   [] msg.role = "model" /\ msgIndex > 1 /\ msgs[msgIndex - 1].role = "user"
                        -> 2
                   [] OTHER -> 1
    IN SubSeq(msgs, 1, first - 1) \o SubSeq(msgs, first + count, Len(msgs))

\* one call of a handler or callback; t is what Date.now() returns during it
ChatStep(op, sid, mid, t) ==
    /\ chatOps < MaxChatOps
    /\ now' = t
    /\ chatOps' = chatOps + 1
    /\ chatLast' = [op |-> op, sid |-> sid, mid |-> mid]

\* processGeminiRequest up to the start of the stream, on the session list ss
StartStream(ss, sessionId, chatHistory, t) ==
    /\ isStreaming' = TRUE
    /\ suggestions' = <<>>
    /\ sessions' = UpdateSessionMessages(ss, sessionId,
                       Append(chatHistory, PlaceholderMessage(t + 1)), t)
    /\ streams' = Append(streams, [sessionId |-> sessionId, agentMsgId |-> t + 1,
                                   phase |-> "streaming"])

\* texts of exactly 30 and of 31 characters
Text30 == "abcdefghijklmnopqrstuvwxyzABCD"
Text31 == "abcdefghijklmnopqrstuvwxyzABCDE"
LongTexts == {Text30, Text31}

\* the characters of a text
Chars(text) ==
    LET long == <<"a", "b", "c", "d", "e", "f", "g", "h", "i", "j", "k", "l", "m",
                  "n", "o", "p", "q", "r", "s", "t", "u", "v", "w", "x", "y", "z",
                  "A", "B", "C", "D", "E">>
    IN CASE text = Text31 -> long
         [] text = Text30 -> SubSeq(long, 1, 30)
         [] OTHER -> <<"h", "e", "l", "l", "o">>

\* a title cut after 31 characters
TitleOf_CutsAt31(text) ==
    LET c == Chars(text)
    IN IF Len(c) > 31 THEN SubSeq(c, 1, 31) \o <<".", ".", ".">> ELSE c

\* text.slice(0, 30) + (text.length > 30 ? '...' : ''), as characters
TitleOf(text) ==
    LET c == Chars(text)
    IN IF Len(c) > 30 THEN SubSeq(c, 1, 30) \o <<".", ".", ".">> ELSE c

\* activeAgent.id: the first agent of the list the hook was mounted with
activeAgentId ==
    IF agents = <<>> THEN 0 ELSE agents[1].id

\* handleSendMessage(text, attachments) when Date.now() returns t
SendMessage(text, t) ==
        LET fresh == currentSessionId = 0
            sessionId == IF fresh THEN t ELSE currentSessionId
            newSession == [id |-> t, title |-> TitleOf(text), messages |-> <<>>,
                           agentId |-> activeAgentId, lastModified |-> t]
            withSession == IF fresh THEN <<newSession>> \o sessions ELSE sessions
            currentMessages == IF fresh THEN <<>> ELSE CurrentMessages
            updatedMessages == Append(currentMessages, UserMessage(t, text))
            afterUser == UpdateSessionMessages(withSession, sessionId, updatedMessages, t)
        IN /\ StartStream(afterUser, sessionId, updatedMessages, t)
           /\ currentSessionId' = sessionId
           /\ isGeneratingSuggestions' = FALSE
           /\ ChatStep("send", sessionId, t, t)
           /\ UNCHANGED <<regVars, evalVars, toolVars>>

handleSendMessage ==
    \E text \in UserTexts, t \in ClockReadings : SendMessage(text, t)

\* handleSendMessage with a text of 30 characters or more
handleSendLongMessage ==
    \E text \in LongTexts, t \in ClockReadings : SendMessage(text, t)

\* an edit that keeps the messages after the edited one
EditedHistory_KeepsTail(msgs, msgIndex, newText) ==
    [msgs EXCEPT ![msgIndex].text = newText]

\* handleEditMessage: historyToKeep followed by the updated message
EditedHistory(msgs, msgIndex, newText) ==
    Append(SubSeq(msgs, 1, msgIndex - 1), [msgs[msgIndex] EXCEPT !.text = newText])

handleEditMessage ==
    \E messageId \in Times, newText \in EditTexts, t \in ClockReadings :
        LET msgIndex == FindMessage(CurrentMessages, messageId)
            newHistory == EditedHistory(CurrentMessages, msgIndex, newText)
            afterEdit == UpdateSessionMessages(sessions, currentSessionId, newHistory, t)
        IN /\ IF currentSessionId = 0 \/ msgIndex = 0
              THEN \* early return: Date.now() is not read
                   /\ t = now
                   /\ UNCHANGED <<sessions, isStreaming, suggestions, streams>>
              ELSE StartStream(afterEdit, currentSessionId, newHistory, t)
           /\ ChatStep("edit", currentSessionId, messageId, t)
           /\ UNCHANGED <<currentSessionId, isGeneratingSuggestions>>
           /\ UNCHANGED <<regVars, evalVars, toolVars>>

handleDeleteMessage ==
    \E messageId \in Times, t \in ClockReadings :
        LET msgIndex == FindMessage(CurrentMessages, messageId)
            newMessages == DeleteAt(CurrentMessages, msgIndex)
            clears == newMessages = <<>> \/ newMessages[Len(newMessages)].role = "user"
        IN /\ currentSessionId # 0
           /\ msgIndex # 0
           /\ sessions' = UpdateSessionMessages(sessions, currentSessionId, newMessages, t)
           /\ suggestions' = IF clears THEN <<>> ELSE suggestions
           /\ isGeneratingSuggestions' = IF clears THEN FALSE ELSE isGeneratingSuggestions
           /\ ChatStep("deleteMessage", currentSessionId, messageId, t)
           /\ UNCHANGED <<currentSessionId, isStreaming, streams>>
           /\ UNCHANGED <<regVars, evalVars, toolVars>>

handleFeedback ==
    \E messageId \in Times, type \in FeedbackVals :
        /\ currentSessionId # 0
        /\ sessions' = [i \in 1..Len(sessions) |->
                           IF sessions[i].id = currentSessionId
                           THEN [sessions[i] EXCEPT !.messages =
                                    [j \in 1..Len(sessions[i].messages) |->
                                        IF sessions[i].messages[j].id = messageId
                                        THEN [sessions[i].messages[j] EXCEPT !.feedback = type]
                                        ELSE sessions[i].messages[j]]]
                           ELSE sessions[i]]
        /\ sessions' # sessions
        /\ ChatStep("feedback", currentSessionId, messageId, now)
        /\ UNCHANGED <<currentSessionId, isStreaming, suggestions,
                       isGeneratingSuggestions, streams>>
        /\ UNCHANGED <<regVars, evalVars, toolVars>>

handleDeleteSession ==
    \E sessionId \in Times :
        /\ FindSession(sessions, sessionId) # 0
        /\ sessions' = SelectSeq(sessions, LAMBDA x : x.id # sessionId)
        /\ currentSessionId' = IF currentSessionId = sessionId THEN 0 ELSE currentSessionId
        \* the effect on currentSessionId
        /\ suggestions' = IF currentSessionId = sessionId THEN <<>> ELSE suggestions
        /\ isGeneratingSuggestions' =
              IF currentSessionId = sessionId THEN FALSE ELSE isGeneratingSuggestions
        /\ ChatStep("deleteSession", sessionId, 0, now)
        /\ UNCHANGED <<isStreaming, streams>>
        /\ UNCHANGED <<regVars, evalVars, toolVars>>

handleClearChat ==
    \E t \in ClockReadings :
    /\ currentSessionId # 0
    /\ sessions' = UpdateSessionMessages(sessions, currentSessionId, <<>>, t)
    /\ suggestions' = <<>>
    /\ isGeneratingSuggestions' = FALSE
    /\ ChatStep("clearChat", currentSessionId, 0, t)
    /\ UNCHANGED <<currentSessionId, isStreaming, streams>>
    /\ UNCHANGED <<regVars, evalVars, toolVars>>

handleNewChat ==
    /\ currentSessionId' = 0
    /\ suggestions' = <<>>
    /\ isGeneratingSuggestions' = FALSE
    /\ ChatStep("newChat", 0, 0, now)
    /\ UNCHANGED <<sessions, isStreaming, streams>>
    /\ UNCHANGED <<regVars, evalVars, toolVars>>

handleSelectSession ==
    \E sessionId \in Times :
        /\ FindSession(sessions, sessionId) # 0
        /\ sessionId # currentSessionId
        /\ currentSessionId' = sessionId
        \* the effect on currentSessionId
        /\ suggestions' = <<>>
        /\ isGeneratingSuggestions' = FALSE
        /\ ChatStep("selectSession", sessionId, 0, now)
        /\ UNCHANGED <<sessions, isStreaming, streams>>
        /\ UNCHANGED <<regVars, evalVars, toolVars>>

onChunk ==
    \E k \in 1..Len(streams), chunkText \in ChunkTexts, t \in ClockReadings :
        /\ streams[k].phase = "streaming"
        /\ sessions' = WriteChunk(sessions, streams[k].sessionId,
                                  streams[k].agentMsgId, chunkText, t)
        /\ sessions' # sessions
        /\ ChatStep("chunk", streams[k].sessionId, streams[k].agentMsgId, t)
        /\ UNCHANGED <<currentSessionId, isStreaming, suggestions,
                       isGeneratingSuggestions, streams>>
        /\ UNCHANGED <<regVars, evalVars, toolVars>>

onComplete ==
    \E k \in 1..Len(streams), fullText \in FullTexts, t \in ClockReadings :
        /\ streams[k].phase = "streaming"
        /\ sessions' = WriteStreamMessage(sessions, streams[k].sessionId,
                                          streams[k].agentMsgId, fullText, FALSE, t)
        /\ isStreaming' = FALSE
        /\ isGeneratingSuggestions' = TRUE
        /\ streams' = [streams EXCEPT ![k].phase = "suggesting"]
        /\ ChatStep("complete", streams[k].sessionId, streams[k].agentMsgId, t)
        /\ UNCHANGED <<currentSessionId, suggestions>>
        /\ UNCHANGED <<regVars, evalVars, toolVars>>

onError ==
    \E k \in 1..Len(streams), msg \in ErrorMessages, t \in ClockReadings :
        /\ streams[k].phase = "streaming"
        /\ sessions' = WriteStreamMessage(sessions, streams[k].sessionId,
                                          streams[k].agentMsgId, ErrorText(msg), FALSE, t)
        /\ isStreaming' = FALSE
        /\ streams' = [streams EXCEPT ![k].phase = "done"]
        /\ ChatStep("error", streams[k].sessionId, streams[k].agentMsgId, t)
        /\ UNCHANGED <<currentSessionId, suggestions, isGeneratingSuggestions>>
        /\ UNCHANGED <<regVars, evalVars, toolVars>>

\* generateChatSuggestions resolved: the suggestions are those written for stream k
suggestionsResolved ==
    \E k \in 1..Len(streams) :
        /\ streams[k].phase = "suggesting"
        /\ suggestions' = <<[sessionId |-> streams[k].sessionId,
                             agentMsgId |-> streams[k].agentMsgId]>>
        /\ isGeneratingSuggestions' = FALSE
        /\ streams' = [streams EXCEPT ![k].phase = "done"]
        /\ ChatStep("suggestions", streams[k].sessionId, streams[k].agentMsgId, now)
        /\ UNCHANGED <<sessions, currentSessionId, isStreaming>>
        /\ UNCHANGED <<regVars, evalVars, toolVars>>

\* generateChatSuggestions rejected
suggestionsFailed ==
    \E k \in 1..Len(streams) :
        /\ streams[k].phase = "suggesting"
        /\ isGeneratingSuggestions' = FALSE
        /\ streams' = [streams EXCEPT ![k].phase = "done"]
        /\ ChatStep("suggestionsFailed", streams[k].sessionId, streams[k].agentMsgId, now)
        /\ UNCHANGED <<sessions, currentSessionId, isStreaming, suggestions>>
        /\ UNCHANGED <<regVars, evalVars, toolVars>>

(***************************************************************************)
(* useEvaluation: suites, runs and the suite runner                        *)
(***************************************************************************)
SuiteNames == {"Smoke"}
RenameVals == {"Renamed"}
BaseUrlVals == {"", "http://localhost:7777"}
EvalFullTexts == {"answer"}

\* a check that takes every value for a base URL
HasBaseUrl_Always(url) ==
    TRUE

\* !(!baseUrl): the connection settings hold a base URL
HasBaseUrl(url) ==
    url # ""

\* characters String.prototype.trim strips
Whitespace == {" "}

RECURSIVE TrimStart(_)
TrimStart(s) == IF s # <<>> /\ Head(s) \in Whitespace THEN TrimStart(Tail(s)) ELSE s

RECURSIVE TrimEnd(_)
TrimEnd(s) ==
    IF s # <<>> /\ s[Len(s)] \in Whitespace THEN TrimEnd(SubSeq(s, 1, Len(s) - 1)) ELSE s

\* input.trim(), an input being its sequence of characters
Trim(s) == TrimEnd(TrimStart(s))

\* a skip test that only knows the empty string
IsBlank_OnlyEmpty(input) ==
    input = <<>>

\* !testCase.input.trim()
IsBlank(input) ==
    Trim(input) = <<>>

EvalCase(id, input) == [id |-> id, input |-> input]

\* the case lists the suite editor hands to updateSuiteCases
CaseLists ==
    { <<>>,
      <<EvalCase(1, <<>>), EvalCase(2, <<" ", " ">>)>>,
      <<EvalCase(1, <<"h", "i">>)>>,
      <<EvalCase(1, <<"h", "i">>), EvalCase(2, <<" ">>), EvalCase(3, <<" ", "y", "o", " ">>)>> }

\* what the judge backend answers once parsed: the JSON object, or no usable answer
JsonReplies ==
    { [pass |-> FALSE, score |-> 60, reasoning |-> "partly"],
      [pass |-> TRUE, score |-> 75, reasoning |-> "good"] }

JudgeReplies ==
    {[failed |-> TRUE, json |-> [raw |-> "not json"]]}
        \cup {[failed |-> FALSE, json |-> j] : j \in JsonReplies}

\* evaluateTestCase without a base URL
NotConfiguredResult(actualOutput) ==
    [pass |-> FALSE, score |-> 0, actualOutput |-> actualOutput,
     reasoning |-> "Agno Service URL not configured."]

\* evaluateTestCase with a base URL: the parsed answer with its defaults, or the
\* fallback of the catch block
EvaluateTestCase(reply, actualOutput) ==
    IF reply.failed
    THEN [pass |-> FALSE, score |-> 0, actualOutput |-> actualOutput,
          reasoning |-> "Evaluation failed due to API error or parsing issue."]
    ELSE [pass |-> IF "pass" \in DOMAIN reply.json THEN reply.json.pass ELSE FALSE,
          score |-> IF "score" \in DOMAIN reply.json THEN reply.json.score ELSE 0,
          actualOutput |-> actualOutput,
          reasoning |-> IF "reasoning" \in DOMAIN reply.json THEN reply.json.reasoning
                        ELSE "Evaluation parsed."]

\* evalResult.testCaseId = testCase.id
Tagged(result, testCaseId) ==
    [testCaseId |-> testCaseId, pass |-> result.pass, score |-> result.score,
     actualOutput |-> result.actualOutput, reasoning |-> result.reasoning]

\* suites.find(s => s.id === suiteId): position of the first match, 0 if none
FindSuite(ss, suiteId) ==
    LET hits == {i \in 1..Len(ss) : ss[i].id = suiteId}
    IN IF hits = {} THEN 0 ELSE CHOOSE i \in hits : \A j \in hits : i <= j

\* a guard that lets a suite without cases run
SuiteRunnable_AllowsEmpty(ss, suiteId) ==
    FindSuite(ss, suiteId) # 0

\* !(!suite || suite.cases.length === 0)
SuiteRunnable(ss, suiteId) ==
    FindSuite(ss, suiteId) # 0 /\ Len(ss[FindSuite(ss, suiteId)].cases) # 0

RECURSIVE SumScores(_)
\* results.reduce((acc, r) => acc + r.score, 0)
SumScores(results) ==
    IF results = <<>> THEN 0 ELSE Head(results).score + SumScores(Tail(results))

\* an average that drops the fraction
AvgScore_Floor(results) ==
    IF Len(results) > 0 THEN SumScores(results) \div Len(results) ELSE 0

\* results.length > 0 ? Math.round(totalScore / results.length) : 0
AvgScore(results) ==
    IF Len(results) > 0
    THEN (2 * SumScores(results) + Len(results)) \div (2 * Len(results))
    ELSE 0

\* a delete that leaves the runs alone
RunsAfterDelete_KeepsRuns(prev, id) ==
    prev

\* prev.filter(r => r.suiteId !== id)
RunsAfterDelete(prev, id) ==
    SelectSeq(prev, LAMBDA r : r.suiteId # id)

\* a run that carries the agent's name where the suite name snapshot belongs
NewRun_NoSuiteName(proc, results) ==
    [id |-> proc.runId,
     suiteId |-> proc.suiteId,
     suiteNameSnapshot |-> proc.agentName,
     agentId |-> proc.agentId,
     agentNameSnapshot |-> proc.agentName,
     agentVersionSnapshot |-> proc.agentVersion,
     overallScore |-> AvgScore(results),
     results |-> results]

\* the EvaluationRun built at the end of runSuite
NewRun(proc, results) ==
    [id |-> proc.runId,
     suiteId |-> proc.suiteId,
     suiteNameSnapshot |-> proc.suiteName,
     agentId |-> proc.agentId,
     agentNameSnapshot |-> proc.agentName,
     agentVersionSnapshot |-> proc.agentVersion,
     overallScore |-> AvgScore(results),
     results |-> results]

\* the for loop with its `continue`: the first case from position `from` on that
\* has input, Len(cases) + 1 if there is none
NextCase(cases, from) ==
    LET todo == {i \in from..Len(cases) : ~IsBlank(cases[i].input)}
    IN IF todo = {} THEN Len(cases) + 1 ELSE CHOOSE i \in todo : \A j \in todo : i <= j

\* state left by an earlier visit in the two storage slots: nothing, or two suites
\* with one run each (the second suite lost its cases after its run)
StoredSuites ==
    << [id |-> -1, name |-> "Smoke",
        cases |-> <<EvalCase(1, <<"h", "i">>), EvalCase(2, <<" ", " ">>)>>],
       [id |-> -2, name |-> "Smoke", cases |-> <<>>] >>

StoredResult(score) ==
    Tagged([pass |-> score >= 70, score |-> score, actualOutput |-> "answer",
            reasoning |-> "good"], 1)

StoredRuns ==
    << [id |-> 0, suiteId |-> -1, suiteNameSnapshot |-> "Smoke", agentId |-> 1,
        agentNameSnapshot |-> "New Agent", agentVersionSnapshot |-> 1,
        overallScore |-> AvgScore(<<StoredResult(80)>>), results |-> <<StoredResult(80)>>],
       [id |-> -1, suiteId |-> -2, suiteNameSnapshot |-> "Smoke", agentId |-> 1,
        agentNameSnapshot |-> "New Agent", agentVersionSnapshot |-> 1,
        overallScore |-> AvgScore(<<StoredResult(60)>>), results |-> <<StoredResult(60)>>] >>

SuiteIds == {-2, -1} \cup Times

chatData == <<chatOps, sessions, currentSessionId, isStreaming, suggestions,
              isGeneratingSuggestions, streams, chatLast>>

\* one call of an operation of the hook; t is what Date.now() returns during it
EvalStep(op, id, t) ==
    /\ evalOps < MaxEvalOps
    /\ evalOps' = evalOps + 1
    /\ evalLast' = [op |-> op, id |-> id]
    /\ now' = t
    /\ UNCHANGED <<regVars, chatData>>

\* one continuation of a running runSuite after an await
RunStep(op, p) ==
    /\ evalLast' = [op |-> op, id |-> evalProcs[p].suiteId]
    /\ UNCHANGED <<regVars, chatVars, evalOps, suites, baseUrl, toolVars>>

createSuite ==
    \E name \in SuiteNames, t \in ClockReadings :
        /\ suites' = <<[id |-> t, name |-> name, cases |-> <<>>]>> \o suites
        /\ EvalStep("createSuite", t, t)
        /\ UNCHANGED <<runs, isRunning, baseUrl, evalProcs, remote, toolVars>>

updateSuite ==
    \E id \in SuiteIds, name \in RenameVals :
        /\ suites' = [i \in 1..Len(suites) |->
                         IF suites[i].id = id THEN [suites[i] EXCEPT !.name = name]
                         ELSE suites[i]]
        /\ suites' # suites
        /\ EvalStep("updateSuite", id, now)
        /\ UNCHANGED <<runs, isRunning, baseUrl, evalProcs, remote, toolVars>>

deleteSuite ==
    \E id \in SuiteIds :
        /\ suites' = SelectSeq(suites, LAMBDA x : x.id # id)
        /\ runs' = RunsAfterDelete(runs, id)
        /\ suites' # suites \/ runs' # runs
        /\ EvalStep("deleteSuite", id, now)
        /\ UNCHANGED <<isRunning, baseUrl, evalProcs, remote, toolVars>>

updateSuiteCases ==
    \E suiteId \in SuiteIds, cases \in CaseLists :
        /\ suites' = [i \in 1..Len(suites) |->
                         IF suites[i].id = suiteId THEN [suites[i] EXCEPT !.cases = cases]
                         ELSE suites[i]]
        /\ suites' # suites
        /\ EvalStep("updateSuiteCases", suiteId, now)
        /\ UNCHANGED <<runs, isRunning, baseUrl, evalProcs, remote, toolVars>>

\* the connection settings slot agno_base_url is written
saveConnectionSettings ==
    \E url \in BaseUrlVals :
        /\ url # baseUrl
        /\ baseUrl' = url
        /\ EvalStep("saveConnectionSettings", 0, now)
        /\ UNCHANGED <<suites, runs, isRunning, evalProcs, remote, toolVars>>

\* a catch block that records a zero-score entry for the case that threw
Caught_ZeroEntry(proc) ==
    [proc EXCEPT !.thrown = @ \cup {proc.cases[proc.idx].id},
                 !.results = Append(@, Tagged([pass |-> FALSE, score |-> 0,
                                               actualOutput |-> proc.actualOutput,
                                               reasoning |-> "Run error"],
                                              proc.cases[proc.idx].id))]

\* catch (e) { console.error("Run error", e) }: the case is logged (thrown is the
\* log of the run) and nothing is pushed to results
Caught(proc) ==
    [proc EXCEPT !.thrown = @ \cup {proc.cases[proc.idx].id}]

\* a loop body that goes from the stream to the judge without deleting the session
AfterStream_SkipsDelete ==
    "judge"

\* the statement after the awaited stream promise: await client.deleteSession(...)
AfterStream ==
    "deleteSession"

\* a run that ends without setIsRunning(false)
Advance_LeavesRunning(p, proc) ==
    LET next == NextCase(proc.cases, proc.idx + 1)
    IN IF next > Len(proc.cases)
       THEN /\ runs' = <<NewRun(proc, proc.results)>> \o runs
            /\ evalProcs' = RemoveAt(evalProcs, p)
            /\ UNCHANGED isRunning
       ELSE /\ evalProcs' = [evalProcs EXCEPT ![p] =
                                [proc EXCEPT !.idx = next, !.pc = "createSession",
                                             !.actualOutput = ""]]
            /\ UNCHANGED <<runs, isRunning>>

\* the loop of run p leaves its current case in state proc: it stops at the next
\* await (createSession of the next case with input) or runs to the end
Advance(p, proc) ==
    LET next == NextCase(proc.cases, proc.idx + 1)
    IN IF next > Len(proc.cases)
       THEN /\ runs' = <<NewRun(proc, proc.results)>> \o runs
            /\ isRunning' = FALSE
            /\ evalProcs' = SubSeq(evalProcs, 1, p - 1) \o SubSeq(evalProcs, p + 1, Len(evalProcs))
       ELSE /\ evalProcs' = [evalProcs EXCEPT ![p] =
                                [proc EXCEPT !.idx = next, !.pc = "createSession",
                                             !.actualOutput = ""]]
            /\ UNCHANGED <<runs, isRunning>>

\* runSuite up to its first await
runSuite ==
    \E suiteId \in SuiteIds, a \in 1..Len(agents), t \in ClockReadings :
        /\ IF ~SuiteRunnable(suites, suiteId) \/ ~HasBaseUrl(baseUrl)
           THEN \* early return: Date.now() is not read
                /\ t = now
                /\ UNCHANGED <<runs, isRunning, evalProcs>>
           ELSE LET suite == suites[FindSuite(suites, suiteId)]
                    first == NextCase(suite.cases, 1)
                    proc == [runId |-> t,
                             suiteId |-> suiteId,
                             suiteName |-> suite.name,
                             cases |-> suite.cases,
                             agentId |-> agents[a].id,
                             agentName |-> agents[a].name,
                             agentVersion |-> IF agents[a].currentVersion = 0 THEN 1
                                              ELSE agents[a].currentVersion,
                             idx |-> first,
                             pc |-> "createSession",
                             actualOutput |-> "",
                             results |-> <<>>,
                             thrown |-> {},
                             open |-> 0]
                IN IF first > Len(suite.cases)
                   THEN \* no case has input: the function runs to its end at once
                        /\ runs' = <<NewRun(proc, <<>>)>> \o runs
                        /\ isRunning' = FALSE
                        /\ UNCHANGED evalProcs
                   ELSE /\ evalProcs' = Append(evalProcs, proc)
                        /\ isRunning' = TRUE
                        /\ UNCHANGED runs
        /\ EvalStep("runSuite", suiteId, t)
        /\ UNCHANGED <<suites, baseUrl, remote, toolVars>>

createSessionResolved ==
    \E p \in 1..Len(evalProcs) :
        /\ evalProcs[p].pc = "createSession"
        /\ evalProcs' = [evalProcs EXCEPT ![p].pc = "stream", ![p].open = @ + 1]
        /\ remote' = [remote EXCEPT !.created = @ + 1]
        /\ RunStep("createSessionResolved", p)
        /\ UNCHANGED <<runs, isRunning>>

createSessionRejected ==
    \E p \in 1..Len(evalProcs) :
        /\ evalProcs[p].pc = "createSession"
        /\ Advance(p, Caught(evalProcs[p]))
        /\ RunStep("createSessionRejected", p)
        /\ UNCHANGED remote

streamCompleted ==
    \E p \in 1..Len(evalProcs), fullText \in EvalFullTexts :
        /\ evalProcs[p].pc = "stream"
        /\ evalProcs' = [evalProcs EXCEPT ![p].pc = AfterStream,
                                          ![p].actualOutput = fullText]
        /\ RunStep("streamCompleted", p)
        /\ UNCHANGED <<runs, isRunning, remote>>

streamErrored ==
    \E p \in 1..Len(evalProcs), msg \in ErrorMessages :
        /\ evalProcs[p].pc = "stream"
        /\ evalProcs' = [evalProcs EXCEPT ![p].pc = AfterStream,
                                          ![p].actualOutput = ErrorText(msg)]
        /\ RunStep("streamErrored", p)
        /\ UNCHANGED <<runs, isRunning, remote>>

\* deleteSession resolved and evaluateTestCase is called: without a base URL it
\* answers at once, otherwise the run waits for the judge
deleteSessionResolved ==
    \E p \in 1..Len(evalProcs) :
        LET proc == [evalProcs[p] EXCEPT !.open = @ - 1]
            result == Tagged(NotConfiguredResult(proc.actualOutput), proc.cases[proc.idx].id)
        IN /\ proc.pc = "deleteSession"
           /\ remote' = [remote EXCEPT !.deleted = @ + 1, !.judged = @ + 1]
           /\ IF ~HasBaseUrl(baseUrl)
              THEN Advance(p, [proc EXCEPT !.results = Append(@, result)])
              ELSE /\ evalProcs' = [evalProcs EXCEPT ![p] = [proc EXCEPT !.pc = "judge"]]
                   /\ UNCHANGED <<runs, isRunning>>
           /\ RunStep("deleteSessionResolved", p)

deleteSessionRejected ==
    \E p \in 1..Len(evalProcs) :
        /\ evalProcs[p].pc = "deleteSession"
        /\ Advance(p, Caught([evalProcs[p] EXCEPT !.open = @ - 1]))
        /\ RunStep("deleteSessionRejected", p)
        /\ UNCHANGED remote

judgeResolved ==
    \E p \in 1..Len(evalProcs), reply \in JudgeReplies :
        LET proc == evalProcs[p]
            result == Tagged(EvaluateTestCase(reply, proc.actualOutput),
                             proc.cases[proc.idx].id)
        IN /\ proc.pc = "judge"
           /\ Advance(p, [proc EXCEPT !.results = Append(@, result)])
           /\ RunStep("judgeResolved", p)
           /\ UNCHANGED remote

(***************************************************************************)
(* Judge (evaluateTestCase), one call followed through its awaits          *)
(***************************************************************************)
JudgeOutputs == {"answer"}

\* a JSON object that has none of the three fields
EmptyObject == [verdict |-> "fine"]

\* the objects the evaluator agent writes
JudgeAnswers ==
    JsonReplies \cup
        { [pass |-> TRUE, score |-> 69, reasoning |-> "close"],
          [pass |-> FALSE, score |-> 70, reasoning |-> "strict"],
          [pass |-> TRUE, score |-> 150, reasoning |-> "generous"],
          EmptyObject }

\* the text that is not JSON: a cumulative chunk cut off half way, or prose
NotJson == [text |-> "not json"]

\* the final texts the stream delivers: an object printed as JSON, bare or inside
\* a ```json fence, or text that is not JSON
RawTexts ==
    {[fenced |-> FALSE, body |-> [json |-> a]] : a \in JudgeAnswers}
        \cup {[fenced |-> TRUE, body |-> [json |-> a]] : a \in JsonReplies}
        \cup {[fenced |-> FALSE, body |-> NotJson]}

\* the cumulative texts of the chunks: JSON cut off half way, or already complete
ChunkRawTexts ==
    { [fenced |-> FALSE, body |-> NotJson],
      [fenced |-> FALSE, body |-> [json |-> [pass |-> TRUE, score |-> 75,
                                             reasoning |-> "good"]]] }

\* let jsonResult = "{}"
EmptyJsonText == [fenced |-> FALSE, body |-> [json |-> EmptyObject]]

\* jsonResult.replace(/```json\n?|\n?```/g, '').trim()
StripFences(text) == [text EXCEPT !.fenced = FALSE]

\* JSON.parse(text) does not throw
Parses(text) == ~text.fenced /\ "json" \in DOMAIN text.body

\* lines 66-74, or the catch block when JSON.parse throws
JudgeReturn(jsonResult, actualOutput) ==
    LET cleanJson == StripFences(jsonResult)
    IN IF Parses(cleanJson)
       THEN EvaluateTestCase([failed |-> FALSE, json |-> cleanJson.body.json], actualOutput)
       ELSE EvaluateTestCase([failed |-> TRUE, json |-> [raw |-> "not json"]], actualOutput)

\* the catch block of evaluateTestCase
JudgeFallback(actualOutput) ==
    EvaluateTestCase([failed |-> TRUE, json |-> [raw |-> "not json"]], actualOutput)

NoResult == [none |-> TRUE]

JudgeIdle ==
    [pc |-> "idle", actualOutput |-> "", jsonResult |-> EmptyJsonText,
     streamError |-> FALSE, result |-> NoResult]

\* one continuation of a test tool (judge, playground, test lab) after an await
ToolCont(op) ==
    /\ evalLast' = [op |-> op, id |-> 0]
    /\ UNCHANGED <<regVars, chatVars, evalOps, suites, runs, isRunning, baseUrl, evalProcs>>

\* the call returns the given result
JudgeReturns(result) ==
    judge' = [judge EXCEPT !.pc = "idle", !.result = result]

\* evaluateTestCase up to its first await
evaluateTestCase ==
    \E actualOutput \in JudgeOutputs :
        /\ judge.pc = "idle"
        /\ IF ~HasBaseUrl(baseUrl)
           THEN judge' = [JudgeIdle EXCEPT !.actualOutput = actualOutput,
                                           !.result = NotConfiguredResult(actualOutput)]
           ELSE judge' = [JudgeIdle EXCEPT !.actualOutput = actualOutput,
                                           !.pc = "listAgents"]
        /\ EvalStep("evaluateTestCase", 0, now)
        /\ UNCHANGED <<suites, runs, isRunning, baseUrl, evalProcs, remote>>
        /\ UNCHANGED <<playVars, editorVars, labVars>>

listAgentsResolved ==
    \E found \in BOOLEAN :
        /\ judge.pc = "listAgents"
        /\ IF found
           THEN judge' = [judge EXCEPT !.pc = "createSession"]
           ELSE \* agents[0] is undefined: throw new Error(...)
                JudgeReturns(JudgeFallback(judge.actualOutput))
        /\ ToolCont("listAgentsResolved")
        /\ UNCHANGED <<playVars, editorVars, labVars>>
        /\ UNCHANGED remote

listAgentsRejected ==
    /\ judge.pc = "listAgents"
    /\ JudgeReturns(JudgeFallback(judge.actualOutput))
    /\ ToolCont("listAgentsRejected")
    /\ UNCHANGED <<playVars, editorVars, labVars>>
    /\ UNCHANGED remote

judgeSessionResolved ==
    /\ judge.pc = "createSession"
    /\ judge' = [judge EXCEPT !.pc = "stream", !.jsonResult = EmptyJsonText]
    /\ remote' = [remote EXCEPT !.created = @ + 1]
    /\ ToolCont("judgeSessionResolved")
    /\ UNCHANGED <<playVars, editorVars, labVars>>

judgeSessionRejected ==
    /\ judge.pc = "createSession"
    /\ JudgeReturns(JudgeFallback(judge.actualOutput))
    /\ ToolCont("judgeSessionRejected")
    /\ UNCHANGED <<playVars, editorVars, labVars>>
    /\ UNCHANGED remote

judgeChunk ==
    \E chunk \in ChunkRawTexts :
        /\ judge.pc = "stream"
        /\ judge' = [judge EXCEPT !.jsonResult = chunk]
        /\ ToolCont("judgeChunk")
        /\ UNCHANGED <<playVars, editorVars, labVars>>
        /\ UNCHANGED remote

\* onComplete, then the awaited stream call resolves and deleteSession is called
judgeCompleted ==
    \E fullText \in RawTexts :
        /\ judge.pc = "stream"
        /\ judge' = [judge EXCEPT !.jsonResult = fullText, !.pc = "deleteSession"]
        /\ ToolCont("judgeCompleted")
        /\ UNCHANGED <<playVars, editorVars, labVars>>
        /\ UNCHANGED remote

\* onError only logs; the awaited stream call resolves and deleteSession is called
judgeErrored ==
    /\ judge.pc = "stream"
    /\ judge' = [judge EXCEPT !.streamError = TRUE, !.pc = "deleteSession"]
    /\ ToolCont("judgeErrored")
    /\ UNCHANGED <<playVars, editorVars, labVars>>
    /\ UNCHANGED remote

judgeDeleteResolved ==
    /\ judge.pc = "deleteSession"
    /\ JudgeReturns(JudgeReturn(judge.jsonResult, judge.actualOutput))
    /\ remote' = [remote EXCEPT !.deleted = @ + 1]
    /\ ToolCont("judgeDeleteResolved")
    /\ UNCHANGED <<playVars, editorVars, labVars>>

judgeDeleteRejected ==
    /\ judge.pc = "deleteSession"
    /\ JudgeReturns(JudgeFallback(judge.actualOutput))
    /\ ToolCont("judgeDeleteRejected")
    /\ UNCHANGED <<playVars, editorVars, labVars>>
    /\ UNCHANGED remote

(***************************************************************************)
(* Playground of the agent workbench (usePlayground)                       *)
(***************************************************************************)
\* the agent the workbench has selected
selectedAgentId == 1

\* `Debug Session ${n}`
DebugTitle(n) ==
    <<"D", "e", "b", "u", "g", " ", "S", "e", "s", "s", "i", "o", "n", " ">>
        \o <<CASE n = 1 -> "1" [] n = 2 -> "2" [] OTHER -> "3">>

PlaySession(id, title, t) ==
    [id |-> id, title |-> title, messages |-> <<>>, agentId |-> selectedAgentId,
     lastModified |-> t]

PlayUserMessage(id, text) ==
    [id |-> id, role |-> "user", text |-> text, isStreaming |-> FALSE]

PlayPlaceholder(id) ==
    [id |-> id, role |-> "model", text |-> "", isStreaming |-> TRUE]

\* playSessions.filter(s => s.agentId === selectedAgentId)
AgentSessions(ss) == SelectSeq(ss, LAMBDA x : x.agentId = selectedAgentId)

\* agentSessions.find(s => s.id === currentPlaySessionId) || agentSessions[0], the
\* list sorted by lastModified, newest first (the sort is stable): the position in
\* AgentSessions(ss), 0 if it is empty
ActivePlaySession(ss, current) ==
    LET mine == AgentSessions(ss)
        hit == FindSession(mine, current)
    IN IF hit # 0 THEN hit
       ELSE IF mine = <<>> THEN 0
       ELSE CHOOSE i \in 1..Len(mine) :
                \A j \in 1..Len(mine) :
                    \/ mine[i].lastModified > mine[j].lastModified
                    \/ mine[i].lastModified = mine[j].lastModified /\ i <= j

\* the initialisation effect (deps: selectedAgentId, playSessions.length) on the
\* state a handler left
AfterPlayEffect(ss, current, t) ==
    IF AgentSessions(ss) = <<>>
    THEN [sessions |-> <<PlaySession(t, DebugTitle(1), t)>> \o ss, current |-> t]
    ELSE IF FindSession(AgentSessions(ss), current) = 0
         THEN [sessions |-> ss, current |-> AgentSessions(ss)[1].id]
         ELSE [sessions |-> ss, current |-> current]

\* catch (e) { setIsPlayStreaming(false); console.error(...) }: playSessions is
\* not written
PlayCaught(prev, sessionId, botMsgId) ==
    prev

\* the chunk callback's prev.map(...)
PlayChunk(prev, sessionId, botMsgId, chunk) ==
    [i \in 1..Len(prev) |->
        IF prev[i].id = sessionId
        THEN [prev[i] EXCEPT
                !.messages = [j \in 1..Len(prev[i].messages) |->
                                 IF prev[i].messages[j].id = botMsgId
                                 THEN [prev[i].messages[j] EXCEPT !.text = chunk]
                                 ELSE prev[i].messages[j]]]
        ELSE prev[i]]

\* the completion callback's prev.map(...)
PlayComplete(prev, sessionId, botMsgId, full, t) ==
    [i \in 1..Len(prev) |->
        IF prev[i].id = sessionId
        THEN [prev[i] EXCEPT
                !.messages = [j \in 1..Len(prev[i].messages) |->
                                 IF prev[i].messages[j].id = botMsgId
                                 THEN [prev[i].messages[j] EXCEPT !.text = full,
                                                                   !.isStreaming = FALSE]
                                 ELSE prev[i].messages[j]],
                !.lastModified = t]
        ELSE prev[i]]

\* the error callback's prev.map(...)
PlayError(prev, sessionId, botMsgId, msg) ==
    [i \in 1..Len(prev) |->
        IF prev[i].id = sessionId
        THEN [prev[i] EXCEPT
                !.messages = [j \in 1..Len(prev[i].messages) |->
                                 IF prev[i].messages[j].id = botMsgId
                                 THEN [prev[i].messages[j] EXCEPT !.text = ErrorText(msg),
                                                                   !.isStreaming = FALSE]
                                 ELSE prev[i].messages[j]]]
        ELSE prev[i]]

\* one call of a handler of the playground or of the editor
PlayStep(op, id, t) ==
    /\ EvalStep(op, id, t)
    /\ UNCHANGED <<suites, runs, isRunning, baseUrl, evalProcs, remote, judge, labVars>>

\* one callback of a playground or editor stream
PlayCont(op) ==
    /\ ToolCont(op)
    /\ UNCHANGED <<judge, labVars>>

handleNewSession ==
    \E t \in ClockReadings :
        /\ playSessions' =
               <<PlaySession(t, DebugTitle(Len(AgentSessions(playSessions)) + 1), t)>>
                   \o playSessions
        /\ currentPlaySessionId' = t
        /\ PlayStep("handleNewSession", t, t)
        /\ UNCHANGED <<isPlayStreaming, playStreams, editorVars>>

\* deleteSession of the playground, the initialisation effect included
deletePlaySession ==
    \E sessionId \in Times, t \in ClockReadings :
        LET newSessions == SelectSeq(playSessions, LAMBDA x : x.id # sessionId)
            remaining == AgentSessions(newSessions)
            current == IF currentPlaySessionId = sessionId
                       THEN (IF remaining # <<>> THEN remaining[1].id ELSE 0)
                       ELSE currentPlaySessionId
            after == AfterPlayEffect(newSessions, current, t)
        IN /\ newSessions # playSessions
           /\ remaining = <<>> \/ t = now
           /\ playSessions' = after.sessions
           /\ currentPlaySessionId' = after.current
           /\ PlayStep("deleteSession", sessionId, t)
           /\ UNCHANGED <<isPlayStreaming, playStreams, editorVars>>

\* handlePlaygroundSend up to its first await
handlePlaygroundSend ==
    \E text \in UserTexts, t \in ClockReadings :
        LET mine == AgentSessions(playSessions)
            a == ActivePlaySession(playSessions, currentPlaySessionId)
        IN /\ a # 0
           /\ \E i \in 1..Len(agents) : agents[i].id = selectedAgentId
           /\ IF ~HasBaseUrl(baseUrl)
              THEN \* alert(...); return
                   /\ t = now
                   /\ UNCHANGED <<playSessions, isPlayStreaming, playStreams>>
              ELSE LET active == mine[a]
                       newTitle == IF active.messages = <<>> THEN TitleOf(text)
                                   ELSE active.title
                       newHistory == Append(active.messages, PlayUserMessage(t, text))
                   IN /\ playSessions' =
                             [i \in 1..Len(playSessions) |->
                                 IF playSessions[i].id = active.id
                                 THEN [playSessions[i] EXCEPT
                                          !.messages = Append(newHistory,
                                                              PlayPlaceholder(t + 1)),
                                          !.title = newTitle,
                                          !.lastModified = t]
                                 ELSE playSessions[i]]
                      /\ isPlayStreaming' = TRUE
                      /\ playStreams' = Append(playStreams,
                                               [sessionId |-> active.id, botMsgId |-> t + 1,
                                                pc |-> "createSession"])
           /\ PlayStep("handlePlaygroundSend", mine[a].id, t)
           /\ UNCHANGED <<currentPlaySessionId, editorVars>>

playSessionResolved ==
    \E k \in 1..Len(playStreams) :
        /\ playStreams[k].pc = "createSession"
        /\ playStreams' = [playStreams EXCEPT ![k].pc = "stream"]
        /\ remote' = [remote EXCEPT !.created = @ + 1]
        /\ PlayCont("playSessionResolved")
        /\ UNCHANGED <<playSessions, currentPlaySessionId, isPlayStreaming, editorVars>>

playSessionRejected ==
    \E k \in 1..Len(playStreams) :
        /\ playStreams[k].pc = "createSession"
        /\ playSessions' = PlayCaught(playSessions, playStreams[k].sessionId,
                                      playStreams[k].botMsgId)
        /\ isPlayStreaming' = FALSE
        /\ playStreams' = RemoveAt(playStreams, k)
        /\ PlayCont("playSessionRejected")
        /\ UNCHANGED <<currentPlaySessionId, remote, editorVars>>

playChunk ==
    \E k \in 1..Len(playStreams), chunk \in ChunkTexts :
        /\ playStreams[k].pc = "stream"
        /\ playSessions' = PlayChunk(playSessions, playStreams[k].sessionId,
                                     playStreams[k].botMsgId, chunk)
        /\ PlayCont("playChunk")
        /\ UNCHANGED <<currentPlaySessionId, isPlayStreaming, playStreams, remote,
                       editorVars>>

playCompleted ==
    \E k \in 1..Len(playStreams), full \in FullTexts :
        /\ playStreams[k].pc = "stream"
        /\ playSessions' = PlayComplete(playSessions, playStreams[k].sessionId,
                                        playStreams[k].botMsgId, full, now)
        /\ isPlayStreaming' = FALSE
        /\ playStreams' = RemoveAt(playStreams, k)
        /\ PlayCont("playCompleted")
        /\ UNCHANGED <<currentPlaySessionId, remote, editorVars>>

playErrored ==
    \E k \in 1..Len(playStreams), msg \in ErrorMessages :
        /\ playStreams[k].pc = "stream"
        /\ playSessions' = PlayError(playSessions, playStreams[k].sessionId,
                                     playStreams[k].botMsgId, msg)
        /\ isPlayStreaming' = FALSE
        /\ playStreams' = RemoveAt(playStreams, k)
        /\ PlayCont("playErrored")
        /\ UNCHANGED <<currentPlaySessionId, remote, editorVars>>

(***************************************************************************)
(* Playground of the agent editor (AgentEditor)                            *)
(***************************************************************************)
\* handlePlaygroundSend of AgentEditor up to its await
editorPlaygroundSend ==
    \E text \in UserTexts, t \in ClockReadings :
        /\ editorMessages' = editorMessages \o <<PlayUserMessage(t, text),
                                                 PlayPlaceholder(t + 1)>>
        /\ editorStreaming' = TRUE
        /\ editorStreams' = Append(editorStreams, [botMsgId |-> t + 1])
        /\ PlayStep("editorPlaygroundSend", 0, t)
        /\ UNCHANGED <<playVars, form>>

editorChunk ==
    \E k \in 1..Len(editorStreams), chunk \in ChunkTexts :
        /\ editorMessages' = [j \in 1..Len(editorMessages) |->
                                 IF editorMessages[j].id = editorStreams[k].botMsgId
                                 THEN [editorMessages[j] EXCEPT !.text = chunk]
                                 ELSE editorMessages[j]]
        /\ PlayCont("editorChunk")
        /\ UNCHANGED <<editorStreaming, editorStreams, form, playVars, remote>>

editorCompleted ==
    \E k \in 1..Len(editorStreams), full \in FullTexts :
        /\ editorMessages' = [j \in 1..Len(editorMessages) |->
                                 IF editorMessages[j].id = editorStreams[k].botMsgId
                                 THEN [editorMessages[j] EXCEPT !.text = full,
                                                                !.isStreaming = FALSE]
                                 ELSE editorMessages[j]]
        /\ editorStreaming' = FALSE
        /\ editorStreams' = RemoveAt(editorStreams, k)
        /\ PlayCont("editorCompleted")
        /\ UNCHANGED <<form, playVars, remote>>

\* the error callback: () => setIsPlayStreaming(false)
editorErrored ==
    \E k \in 1..Len(editorStreams) :
        /\ editorStreaming' = FALSE
        /\ editorStreams' = RemoveAt(editorStreams, k)
        /\ PlayCont("editorErrored")
        /\ UNCHANGED <<editorMessages, form, playVars, remote>>

(***************************************************************************)
(* Configuration form of the agent editor (AgentEditor)                    *)
(***************************************************************************)
\* the agent the editor is open on: the `agent` prop, the first of the registry
EditorAgent == agents[1]

\* const source = agent.draftConfig || agent
FormSource(agent) == IF HasDraft(agent) THEN agent.draftConfig ELSE agent

\* the effect on [agent.id, language]: the form is loaded from the draft if there
\* is one, else from the live agent.  sinceDiscard is no state of the component:
\* it records that Discard Draft was clicked and nothing typed or saved since.
LoadForm(agent) ==
    [name |-> FormSource(agent).name,
     desc |-> FormSource(agent).description,
     instruction |-> FormSource(agent).systemInstruction,
     showPublishModal |-> FALSE,
     sinceDiscard |-> FALSE]

\* const isDirty = instruction !== savedInstruction
IsDirty(agent) == form.instruction # FormSource(agent).systemInstruction

\* onSaveDraft(agent.id, {name, description, systemInstruction: instruction})
FormDraft ==
    [name |-> form.name, description |-> form.desc, systemInstruction |-> form.instruction]

\* one event of the editor's configuration tab
FormStep(op) ==
    /\ RegStep(op, EditorAgent.id, 0)
    /\ UNCHANGED <<chatVars, evalVars, judge, playVars, labVars>>
    /\ UNCHANGED <<editorMessages, editorStreaming, editorStreams>>

\* typing in the system instruction textarea
setInstruction ==
    \E value \in InstructionVals :
        /\ value # form.instruction
        /\ form' = [form EXCEPT !.instruction = value, !.sinceDiscard = FALSE]
        /\ UNCHANGED agents
        /\ FormStep("setInstruction")

\* the Save Draft button (disabled unless isDirty)
handleSaveDraft ==
    /\ IsDirty(EditorAgent)
    /\ agents' = [i \in 1..Len(agents) |->
                     SaveDraftAgent(agents[i], EditorAgent.id, FormDraft)]
    /\ form' = [form EXCEPT !.sinceDiscard = FALSE]
    /\ FormStep("handleSaveDraft")

\* the Discard Draft button (rendered when the agent has a draft): the form state
\* is not written
clickDiscardDraft ==
    /\ HasDraft(EditorAgent)
    /\ agents' = [i \in 1..Len(agents) |-> DiscardDraftAgent(agents[i], EditorAgent.id)]
    /\ form' = [form EXCEPT !.sinceDiscard = TRUE]
    /\ FormStep("clickDiscardDraft")

\* the Publish button (disabled when there is no draft and the form is not dirty)
handlePublishClick ==
    /\ HasDraft(EditorAgent) \/ IsDirty(EditorAgent)
    /\ agents' = IF IsDirty(EditorAgent)
                 THEN [i \in 1..Len(agents) |->
                          SaveDraftAgent(agents[i], EditorAgent.id, FormDraft)]
                 ELSE agents
    /\ form' = [form EXCEPT !.showPublishModal = TRUE]
    /\ FormStep("handlePublishClick")

\* the confirm button of the publish dialog
confirmPublish ==
    \E changeLog \in ChangeLogVals :
        /\ form.showPublishModal
        /\ agents' = [i \in 1..Len(agents) |->
                         PublishDraftAgent(agents[i], EditorAgent.id, changeLog)]
        /\ form' = [form EXCEPT !.showPublishModal = FALSE, !.sinceDiscard = FALSE]
        /\ FormStep("confirmPublish")

\* the cancel button of the publish dialog
cancelPublish ==
    /\ form.showPublishModal
    /\ form' = [form EXCEPT !.showPublishModal = FALSE]
    /\ UNCHANGED agents
    /\ FormStep("cancelPublish")

(***************************************************************************)
(* Test lab of the agent editor (TestLab.runTests)                         *)
(***************************************************************************)
\* the testCases the component was rendered with
LabCaseLists ==
    { <<EvalCase(1, <<" ">>), EvalCase(2, <<"h", "i">>)>> }

\* { ...prev, [testCase.id]: evalResult }
WithResult(prev, id, result) ==
    [k \in (DOMAIN prev) \cup {id} |-> IF k = id THEN result ELSE prev[k]]

\* the loop of test run k leaves its current case: it stops at the next await or
\* runs to setIsRunning(false)
LabAdvance(k) ==
    LET proc == labProcs[k]
        next == NextCase(proc.cases, proc.idx + 1)
    IN IF next > Len(proc.cases)
       THEN /\ labIsRunning' = FALSE
            /\ labProcs' = RemoveAt(labProcs, k)
       ELSE /\ labProcs' = [labProcs EXCEPT ![k] =
                               [proc EXCEPT !.idx = next, !.pc = "createSession",
                                            !.actualOutput = ""]]
            /\ UNCHANGED labIsRunning

\* one continuation of a test run after an await
LabCont(op) ==
    /\ ToolCont(op)
    /\ UNCHANGED <<judge, playVars, editorVars>>

\* runTests up to its first await
runTests ==
    \E cases \in LabCaseLists :
        /\ IF ~HasBaseUrl(baseUrl)
           THEN \* alert(...); return
                UNCHANGED <<labIsRunning, labProcs>>
           ELSE LET first == NextCase(cases, 1)
                IN IF first > Len(cases)
                   THEN labIsRunning' = FALSE /\ UNCHANGED labProcs
                   ELSE /\ labIsRunning' = TRUE
                        /\ labProcs' = Append(labProcs,
                                              [cases |-> cases, idx |-> first,
                                               pc |-> "createSession",
                                               actualOutput |-> ""])
        /\ EvalStep("runTests", 0, now)
        /\ UNCHANGED <<suites, runs, isRunning, baseUrl, evalProcs, remote>>
        /\ UNCHANGED <<judge, playVars, editorVars, labResults>>

labSessionResolved ==
    \E k \in 1..Len(labProcs) :
        /\ labProcs[k].pc = "createSession"
        /\ labProcs' = [labProcs EXCEPT ![k].pc = "stream"]
        /\ remote' = [remote EXCEPT !.created = @ + 1]
        /\ LabCont("labSessionResolved")
        /\ UNCHANGED <<labIsRunning, labResults>>

labSessionRejected ==
    \E k \in 1..Len(labProcs) :
        /\ labProcs[k].pc = "createSession"
        /\ LabAdvance(k)
        /\ LabCont("labSessionRejected")
        /\ UNCHANGED <<labResults, remote>>

labStreamCompleted ==
    \E k \in 1..Len(labProcs), fullText \in EvalFullTexts :
        /\ labProcs[k].pc = "stream"
        /\ labProcs' = [labProcs EXCEPT ![k].pc = "deleteSession",
                                        ![k].actualOutput = fullText]
        /\ LabCont("labStreamCompleted")
        /\ UNCHANGED <<labIsRunning, labResults, remote>>

labStreamErrored ==
    \E k \in 1..Len(labProcs), msg \in ErrorMessages :
        /\ labProcs[k].pc = "stream"
        /\ labProcs' = [labProcs EXCEPT ![k].pc = "deleteSession",
                                        ![k].actualOutput = ErrorText(msg)]
        /\ LabCont("labStreamErrored")
        /\ UNCHANGED <<labIsRunning, labResults, remote>>

\* deleteSession resolved and evaluateTestCase is called: without a base URL it
\* answers at once
labDeleteResolved ==
    \E k \in 1..Len(labProcs) :
        LET proc == labProcs[k]
            id == proc.cases[proc.idx].id
        IN /\ proc.pc = "deleteSession"
           /\ remote' = [remote EXCEPT !.deleted = @ + 1, !.judged = @ + 1]
           /\ IF ~HasBaseUrl(baseUrl)
              THEN /\ labResults' = WithResult(labResults, id,
                                       Tagged(NotConfiguredResult(proc.actualOutput), id))
                   /\ LabAdvance(k)
              ELSE /\ labProcs' = [labProcs EXCEPT ![k].pc = "judge"]
                   /\ UNCHANGED <<labIsRunning, labResults>>
           /\ LabCont("labDeleteResolved")

labDeleteRejected ==
    \E k \in 1..Len(labProcs) :
        /\ labProcs[k].pc = "deleteSession"
        /\ LabAdvance(k)
        /\ LabCont("labDeleteRejected")
        /\ UNCHANGED <<labResults, remote>>

labJudgeResolved ==
    \E k \in 1..Len(labProcs), reply \in JudgeReplies :
        LET proc == labProcs[k]
            id == proc.cases[proc.idx].id
        IN /\ proc.pc = "judge"
           /\ labResults' = WithResult(labResults, id,
                                       Tagged(EvaluateTestCase(reply, proc.actualOutput), id))
           /\ LabAdvance(k)
           /\ LabCont("labJudgeResolved")
           /\ UNCHANGED remote

\* no judge call in flight; the playground after its initialisation effect has
\* created the first debug session; the editor's playground and test lab empty
InitTools ==
    /\ judge = JudgeIdle
    /\ playSessions = <<PlaySession(1, DebugTitle(1), 1)>>
    /\ currentPlaySessionId = 1
    /\ isPlayStreaming = FALSE
    /\ playStreams = <<>>
    /\ editorMessages = <<>>
    /\ editorStreaming = FALSE
    /\ editorStreams = <<>>
    /\ form = LoadForm(NewAgent(1))
    /\ labIsRunning = FALSE
    /\ labResults = <<>>
    /\ labProcs = <<>>

InitChat ==
    /\ chatOps = 0
    /\ sessions = <<>>
    /\ currentSessionId = 0
    /\ isStreaming = FALSE
    /\ suggestions = <<>>
    /\ isGeneratingSuggestions = FALSE
    /\ streams = <<>>
    /\ now = 1
    /\ chatLast = [op |-> "init", sid |-> 0, mid |-> 0]

InitReg ==
    /\ agents = <<NewAgent(1)>>
    /\ agentsSlot = SavedSlot(NoItem, <<NewAgent(1)>>)
    /\ regLast = [op |-> "init", id |-> 0, arg |-> 0]
    /\ regOps = 0

\* useState initial values, the storage slots empty
InitEvalFresh ==
    /\ suites = <<>>
    /\ runs = <<>>
    /\ isRunning = FALSE
    /\ baseUrl = "http://localhost:7777"
    /\ evalProcs = <<>>
    /\ remote = [created |-> 0, deleted |-> 0, judged |-> 0]
    /\ evalOps = 0
    /\ evalLast = [op |-> "init", id |-> 0]

\* after the load effect: the storage slots were empty or held StoredSuites and
\* StoredRuns
InitEval ==
    /\ \/ suites = <<>> /\ runs = <<>>
       \/ suites = StoredSuites /\ runs = StoredRuns
    /\ isRunning = FALSE
    /\ baseUrl = "http://localhost:7777"
    /\ evalProcs = <<>>
    /\ remote = [created |-> 0, deleted |-> 0, judged |-> 0]
    /\ evalOps = 0
    /\ evalLast = [op |-> "init", id |-> 0]

Init == InitReg /\ InitChat /\ InitEvalFresh /\ InitTools

\* the hooks once the evaluation load effect has run
InitLoaded == InitReg /\ InitChat /\ InitEval /\ InitTools

NextReg ==
    \/ saveDraft
    \/ discardDraft
    \/ publishDraft
    \/ updateTestCases
    \/ restoreVersion
    \/ createAgent
    \/ deleteAgent

SpecReg == Init /\ [][NextReg]_vars

\* the registry as its hook exports it: saveDraft takes any partial agent
NextHook ==
    \/ hookSaveDraft
    \/ discardDraft
    \/ publishDraft
    \/ restoreVersion
    \/ createAgent

SpecHook == Init /\ [][NextHook]_vars

\* the configuration tab of the editor open on the first agent
NextEditor ==
    \/ setInstruction
    \/ handleSaveDraft
    \/ clickDiscardDraft
    \/ handlePublishClick
    \/ confirmPublish
    \/ cancelPublish

SpecEditor == Init /\ [][NextEditor]_vars

NextChat ==
    \/ handleSendMessage
    \/ handleEditMessage
    \/ handleDeleteMessage
    \/ handleFeedback
    \/ handleDeleteSession
    \/ handleClearChat
    \/ handleNewChat
    \/ handleSelectSession
    \/ onChunk
    \/ onComplete
    \/ onError
    \/ suggestionsResolved
    \/ suggestionsFailed

SpecChat == Init /\ [][NextChat]_vars

\* sends of short and long texts into new and existing sessions
NextSend ==
    \/ handleSendMessage
    \/ handleSendLongMessage
    \/ handleNewChat
    \/ handleSelectSession
    \/ handleDeleteSession
    \/ onComplete
    \/ onError

SpecSend == Init /\ [][NextSend]_vars

NextEval ==
    \/ createSuite
    \/ updateSuite
    \/ deleteSuite
    \/ updateSuiteCases
    \/ saveConnectionSettings
    \/ runSuite
    \/ createSessionResolved
    \/ createSessionRejected
    \/ streamCompleted
    \/ streamErrored
    \/ deleteSessionResolved
    \/ deleteSessionRejected
    \/ judgeResolved

SpecEval == InitLoaded /\ [][NextEval]_vars

NextJudge ==
    \/ saveConnectionSettings
    \/ evaluateTestCase
    \/ listAgentsResolved
    \/ listAgentsRejected
    \/ judgeSessionResolved
    \/ judgeSessionRejected
    \/ judgeChunk
    \/ judgeCompleted
    \/ judgeErrored
    \/ judgeDeleteResolved
    \/ judgeDeleteRejected

SpecJudge == Init /\ [][NextJudge]_vars

NextPlay ==
    \/ handleNewSession
    \/ deletePlaySession
    \/ handlePlaygroundSend
    \/ playSessionResolved
    \/ playSessionRejected
    \/ playChunk
    \/ playCompleted
    \/ playErrored
    \/ editorPlaygroundSend
    \/ editorChunk
    \/ editorCompleted
    \/ editorErrored

SpecPlay == Init /\ [][NextPlay]_vars

\* the four operations that need the backend: runSuite, the playground send, the
\* test-lab run and the judge, with the connection settings
NextRemote ==
    \/ saveConnectionSettings
    \/ runSuite
    \/ createSessionResolved
    \/ createSessionRejected
    \/ streamCompleted
    \/ streamErrored
    \/ deleteSessionResolved
    \/ deleteSessionRejected
    \/ judgeResolved
    \/ handlePlaygroundSend
    \/ playSessionResolved
    \/ playSessionRejected
    \/ playChunk
    \/ playCompleted
    \/ playErrored
    \/ runTests
    \/ labSessionResolved
    \/ labSessionRejected
    \/ labStreamCompleted
    \/ labStreamErrored
    \/ labDeleteResolved
    \/ labDeleteRejected
    \/ labJudgeResolved
    \/ evaluateTestCase
    \/ listAgentsResolved
    \/ listAgentsRejected
    \/ judgeSessionResolved
    \/ judgeSessionRejected
    \/ judgeChunk
    \/ judgeCompleted
    \/ judgeErrored
    \/ judgeDeleteResolved
    \/ judgeDeleteRejected

\* the hooks with the stored suites and runs loaded
InitStored == InitLoaded /\ suites = StoredSuites

SpecRemote == InitStored /\ [][NextRemote]_vars

\* every pending await of a run settles: the remote call resolves or rejects, the
\* stream fires its terminal callback, the judge returns
RunProgress ==
    \/ createSessionResolved
    \/ createSessionRejected
    \/ streamCompleted
    \/ streamErrored
    \/ deleteSessionResolved
    \/ deleteSessionRejected
    \/ judgeResolved

NextRun ==
    \/ runSuite
    \/ deleteSuite
    \/ saveConnectionSettings
    \/ RunProgress

\* runs of suites under the assumption that no await of a run stays pending for ever
SpecRunFair == InitStored /\ [][NextRun]_vars /\ WF_vars(RunProgress)

(***************************************************************************)
(* Agent registry: properties                                              *)
(***************************************************************************)
SameLive(a, b) ==
    /\ a.name = b.name
    /\ a.description = b.description
    /\ a.systemInstruction = b.systemInstruction

\* the step just taken was operation op (regLast' names it)
Did(op) == regLast'.op = op

\* positions of the agents the last call addressed
Targets == {i \in 1..Len(agents) : agents[i].id = regLast'.id}

DraftOps == {"saveDraft", "restoreVersion", "discardDraft"}

\* C1: saveDraft, restoreVersion and discardDraft leave name, description and
\* systemInstruction of every agent as they were, so no sequence of them
\* changes the live fields; after discardDraft the agent has no draftConfig.
C1_DraftOpsKeepLive ==
    [][ regLast'.op \in DraftOps =>
          /\ Len(agents') = Len(agents)
          /\ \A i \in 1..Len(agents) : SameLive(agents'[i], agents[i])
          /\ Did("discardDraft") =>
                \A i \in Targets : agents'[i].draftConfig = Undefined ]_vars

\* C1 witness: a draft that differed from the live fields was saved, restored
\* into and discarded, and the live fields are still those of the new agent.
C1_Witness ==
    /\ regLast.op = "discardDraft"
    /\ regOps >= 2
    /\ \E i \in 1..Len(agents) :
          /\ agents[i].id = regLast.id
          /\ agents[i].draftConfig = Undefined
          /\ agents[i].currentVersion = 1
          /\ SameLive(agents[i], NewAgent(agents[i].id))

\* C2: publishDraft on an agent without a draft changes nothing in the
\* registry: neither that agent nor any other one.
C2_PublishWithoutDraftNoOp ==
    [][ (Did("publishDraft") /\ \A i \in Targets : ~HasDraft(agents[i]))
          => agents' = agents ]_vars

\* C2 witness: publishDraft ran on an existing agent that never had a publish
\* take effect, with a second agent in the registry.
C2_Witness ==
    /\ regLast.op = "publishDraft"
    /\ Len(agents) = 2
    /\ \E i \in 1..Len(agents) :
          /\ agents[i].id = regLast.id
          /\ agents[i].currentVersion = 1
          /\ agents[i].testCases # Undefined

\* C3: a publishDraft on an agent that has a draft raises its currentVersion
\* by exactly 1, whether or not the instruction changes.
C3_PublishIncrementsVersion ==
    [][ Did("publishDraft") =>
          \A i \in Targets :
             HasDraft(agents[i]) =>
                agents'[i].currentVersion = agents[i].currentVersion + 1 ]_vars

\* C3 witness: a publish that recorded no PromptVersion still moved the
\* version from 1 to 2.
C3_Witness ==
    /\ regLast.op = "publishDraft"
    /\ \E i \in 1..Len(agents) :
          /\ agents[i].id = regLast.id
          /\ agents[i].currentVersion = 2
          /\ agents[i].promptVersions = <<>>
          /\ agents[i].name = "Renamed"

EntryRecorded(i) == Len(agents'[i].promptVersions) = Len(agents[i].promptVersions) + 1

\* C4 (as claimed): at publishDraft a PromptVersion is recorded exactly when the
\* draft's instruction differs from the live one, and it is then the head
\* entry with the new currentVersion and the draft's instruction.
C4_EntryIffInstructionDiffers ==
    [][ Did("publishDraft") =>
          \A i \in Targets :
             HasDraft(agents[i]) =>
                /\ EntryRecorded(i) <=>
                      agents[i].draftConfig["systemInstruction"] # agents[i].systemInstruction
                /\ ~EntryRecorded(i) => agents'[i].promptVersions = agents[i].promptVersions
                /\ EntryRecorded(i) =>
                      /\ agents'[i].promptVersions[1].version = agents'[i].currentVersion
                      /\ agents'[i].promptVersions[1].systemInstruction =
                            agents[i].draftConfig["systemInstruction"] ]_vars

Versions(agent) == [j \in 1..Len(agent.promptVersions) |-> agent.promptVersions[j].version]

\* C5 (as claimed): read from oldest to newest, the versions of promptVersions
\* go up by exactly 1 from one entry to the next.
C5_VersionsHaveNoGaps ==
    \A i \in 1..Len(agents) :
       \A j \in 1..(Len(agents[i].promptVersions) - 1) :
          Versions(agents[i])[j] = Versions(agents[i])[j + 1] + 1

\* C5 (amended): read from oldest to newest, the versions of promptVersions
\* are strictly increasing; a publish that records no entry still uses up a
\* number, so two neighbours may differ by more than 1.
C5_VersionsStrictlyIncreasing ==
    \A i \in 1..Len(agents) :
       \A j \in 1..(Len(agents[i].promptVersions) - 1) :
          Versions(agents[i])[j] > Versions(agents[i])[j + 1]

\* C5 witness: a history with a gap left by a publish that recorded nothing.
C5_Witness ==
    \E i \in 1..Len(agents) : Versions(agents[i]) = <<4, 2>>

\* C6: after publishDraft on an agent with a draft every field of the draft
\* is the live value and draftConfig is cleared, so publishing again changes
\* nothing.
C6_PublishAppliesDraft ==
    [][ Did("publishDraft") =>
          \A i \in Targets :
             HasDraft(agents[i]) =>
                /\ \A k \in DOMAIN agents[i].draftConfig :
                      agents'[i][k] = agents[i].draftConfig[k]
                /\ agents'[i].draftConfig = Undefined
                /\ \A cl \in ChangeLogVals :
                      PublishDraftAgent(agents'[i], agents'[i].id, cl) = agents'[i] ]_vars

\* C6 witness: a draft with a new name, description and instruction was
\* published.
C6_Witness ==
    /\ regLast.op = "publishDraft"
    /\ \E i \in 1..Len(agents) :
          /\ agents[i].id = regLast.id
          /\ agents[i].name = "Renamed"
          /\ agents[i].description = "Edited"
          /\ agents[i].systemInstruction = "Be brief."
          /\ agents[i].draftConfig = Undefined

\* C7: restoreVersion never publishes (live fields, currentVersion and
\* promptVersions stay); when the version exists the draft gets that
\* version's instruction and keeps its other fields; when it does not exist
\* the agent, draft included, is unchanged.
C7_RestoreStagesOnly ==
    [][ Did("restoreVersion") =>
          /\ Len(agents') = Len(agents)
          /\ \A i \in 1..Len(agents) :
                /\ SameLive(agents'[i], agents[i])
                /\ agents'[i].currentVersion = agents[i].currentVersion
                /\ agents'[i].promptVersions = agents[i].promptVersions
                /\ i \notin Targets => agents'[i] = agents[i]
          /\ \A i \in Targets :
                LET hits == {j \in 1..Len(agents[i].promptVersions) :
                                agents[i].promptVersions[j].version = regLast'.arg}
                    old == IF HasDraft(agents[i]) THEN agents[i].draftConfig ELSE <<>>
                IN IF hits = {} THEN agents'[i] = agents[i]
                   ELSE /\ HasDraft(agents'[i])
                        /\ DOMAIN agents'[i].draftConfig = DOMAIN old \cup {"systemInstruction"}
                        /\ \E j \in hits :
                              agents'[i].draftConfig["systemInstruction"] =
                                 agents[i].promptVersions[j].systemInstruction
                        /\ \A k \in DOMAIN old \ {"systemInstruction"} :
                              agents'[i].draftConfig[k] = old[k] ]_vars

\* C7 witness: a version was restored into a pending draft that carries a new
\* name, and the live instruction is not the restored one.
C7_Witness ==
    /\ regLast.op = "restoreVersion"
    /\ \E i \in 1..Len(agents) :
          /\ agents[i].id = regLast.id
          /\ HasDraft(agents[i])
          /\ DOMAIN agents[i].draftConfig = DraftKeys
          /\ agents[i].draftConfig["name"] = "Renamed"
          /\ agents[i].name = "New Agent"
          /\ agents[i].draftConfig["systemInstruction"] # agents[i].systemInstruction
          /\ \E j \in 1..Len(agents[i].promptVersions) :
                /\ agents[i].promptVersions[j].version = regLast.arg
                /\ agents[i].promptVersions[j].systemInstruction =
                      agents[i].draftConfig["systemInstruction"]

IdOps == {"saveDraft", "discardDraft", "publishDraft", "restoreVersion", "updateTestCases"}

\* C8: saveDraft, discardDraft, publishDraft, restoreVersion and
\* updateTestCases with an id of no agent leave the registry as it was.
C8_UnknownIdNoOp ==
    [][ (regLast'.op \in IdOps /\ regLast'.id \notin KnownIds) => agents' = agents ]_vars

\* C8 witness: updateTestCases was called with the id of a deleted agent while
\* another agent with a pending draft was in the registry.
C8_Witness ==
    /\ regLast.op = "updateTestCases"
    /\ regLast.id \notin KnownIds
    /\ regLast.id = 1
    /\ Len(agents) = 1
    /\ HasDraft(agents[1])

\* old is what remains of new after dropping entries at its head
IsSuffix(old, new) ==
    /\ Len(old) <= Len(new)
    /\ \A j \in 1..Len(old) : new[Len(new) - Len(old) + j] = old[j]

\* C9: saveDraft, discardDraft, restoreVersion and updateTestCases change
\* neither currentVersion nor promptVersions; publishDraft keeps every entry
\* that exists and adds at most one at the head.
C9_OnlyPublishTouchesHistory ==
    [][ /\ regLast'.op \in (IdOps \ {"publishDraft"}) =>
             /\ Len(agents') = Len(agents)
             /\ \A i \in 1..Len(agents) :
                   /\ agents'[i].currentVersion = agents[i].currentVersion
                   /\ agents'[i].promptVersions = agents[i].promptVersions
        /\ Did("publishDraft") =>
             /\ Len(agents') = Len(agents)
             /\ \A i \in 1..Len(agents) :
                   /\ IsSuffix(agents[i].promptVersions, agents'[i].promptVersions)
                   /\ Len(agents'[i].promptVersions) <= Len(agents[i].promptVersions) + 1 ]_vars

\* C9 witness: a second entry was published on top of an existing one.
C9_Witness ==
    /\ regLast.op = "publishDraft"
    /\ \E i \in 1..Len(agents) :
          /\ agents[i].id = regLast.id
          /\ Len(agents[i].promptVersions) = 2
          /\ agents[i].promptVersions[1].version = agents[i].currentVersion

(***************************************************************************)
(* Chat session manager: properties                                        *)
(***************************************************************************)
\* C10 (as claimed): in every reachable state the session list is ordered by
\* lastModified descending.
C10_SessionsSortedByLastModified ==
    \A i \in 1..Len(sessions) : \A j \in 1..Len(sessions) :
        i < j => sessions[i].lastModified >= sessions[j].lastModified

\* the messages of session sid in the session list ss, <<>> if there is none
MessagesOf(ss, sid) ==
    LET i == FindSession(ss, sid)
    IN IF i = 0 THEN <<>> ELSE ss[i].messages

DidChat(op) == chatLast'.op = op

MessageMutations == {"send", "edit", "deleteMessage", "clearChat", "chunk", "complete", "error"}

\* C11 (as claimed): every step that writes messages into a session S (send, edit,
\* delete, clear, stream chunk, completion, error) leaves S first in the session list.
C11_MutatedSessionAtHead ==
    [][ (chatLast'.op \in MessageMutations /\ sessions' # sessions)
            => (sessions' # <<>> /\ sessions'[1].id = chatLast'.sid) ]_vars

StreamCallbacks == {"chunk", "complete", "error"}

TerminalTexts == FullTexts \cup {ErrorText(msg) : msg \in ErrorMessages}

\* the step started a stream: a send, or an edit that found its message
StartedStream == chatLast'.op \in {"send", "edit"} /\ streams' # streams

\* C12 (as claimed): a model message starts as an empty placeholder with
\* isStreaming = TRUE; a chunk callback sets the text of its streaming message to
\* the chunk and leaves isStreaming TRUE; the terminal callback sets the final text
\* and isStreaming = FALSE; a model message whose isStreaming is FALSE is not
\* changed by any later stream callback, and no message goes back to streaming.
C12_StreamLifecycle ==
    [][ /\ StartedStream =>
              LET msgs == MessagesOf(sessions', chatLast'.sid)
              IN /\ msgs # <<>>
                 /\ msgs[Len(msgs)].role = "model"
                 /\ msgs[Len(msgs)].text = ""
                 /\ msgs[Len(msgs)].isStreaming
                 /\ msgs[Len(msgs)].id = streams'[Len(streams')].agentMsgId
        /\ chatLast'.op \in StreamCallbacks =>
              /\ Len(sessions') = Len(sessions)
              /\ \A i \in 1..Len(sessions) :
                    /\ sessions'[i].id = sessions[i].id
                    /\ Len(sessions'[i].messages) = Len(sessions[i].messages)
                    /\ \A j \in 1..Len(sessions[i].messages) :
                          LET m == sessions[i].messages[j]
                              m2 == sessions'[i].messages[j]
                              target == /\ sessions[i].id = chatLast'.sid
                                        /\ m.id = chatLast'.mid
                          IN m.role = "model" =>
                               CASE ~m.isStreaming -> m2 = m
                                 [] m.isStreaming /\ ~target -> m2 = m
                                 [] m.isStreaming /\ target /\ chatLast'.op = "chunk" ->
                                       /\ m2.text \in ChunkTexts
                                       /\ m2.isStreaming
                                 [] OTHER ->
                                       /\ m2.text \in TerminalTexts
                                       /\ ~m2.isStreaming
        /\ \A i \in 1..Len(sessions') : \A j \in 1..Len(sessions'[i].messages) :
              LET m2 == sessions'[i].messages[j]
              IN (m2.role = "model" /\ m2.isStreaming) =>
                    \/ /\ StartedStream
                       /\ sessions'[i].id = chatLast'.sid
                       /\ j = Len(sessions'[i].messages)
                    \/ \E k \in 1..Len(MessagesOf(sessions, sessions'[i].id)) :
                          /\ MessagesOf(sessions, sessions'[i].id)[k].id = m2.id
                          /\ MessagesOf(sessions, sessions'[i].id)[k].isStreaming ]_vars

\* C13 (as claimed): whenever suggestions are shown, the last message of the current
\* session is a completed model message and the suggestions were generated for it.
C13_SuggestionsBelongToLastTurn ==
    suggestions # <<>> =>
        LET msgs == CurrentMessages
        IN /\ currentSessionId # 0
           /\ msgs # <<>>
           /\ msgs[Len(msgs)].role = "model"
           /\ ~msgs[Len(msgs)].isStreaming
           /\ suggestions[1].sessionId = currentSessionId
           /\ suggestions[1].agentMsgId = msgs[Len(msgs)].id

\* msgs without the positions lo..hi, the rest in order
Without(msgs, lo, hi) ==
    [j \in 1..(Len(msgs) - (hi - lo + 1)) |->
        IF j < lo THEN msgs[j] ELSE msgs[j + (hi - lo + 1)]]

\* C14: handleDeleteMessage(m) on the current session removes m and the next message
\* when m is a user message directly followed by a model message, m and the previous
\* message when m is a model message directly preceded by a user message, and only m
\* otherwise; the messages left keep their content and order.  m is the message
\* that messages.findIndex finds for the id passed in.
C14_DeleteRemovesTurn ==
    [][ DidChat("deleteMessage") =>
          LET msgs == CurrentMessages
              i == FindMessage(msgs, chatLast'.mid)
              after == MessagesOf(sessions', currentSessionId)
          IN /\ i # 0
             /\ chatLast'.sid = currentSessionId
             /\ CASE msgs[i].role = "user" /\ i < Len(msgs) /\ msgs[i + 1].role = "model"
                        -> after = Without(msgs, i, i + 1)
                    [] msgs[i].role = "model" /\ i > 1 /\ msgs[i - 1].role = "user"
                        -> after = Without(msgs, i - 1, i)
                    [] OTHER -> after = Without(msgs, i, i) ]_vars

\* C14 witness: a delete took a whole turn out of a longer conversation.
C14_Witness ==
    /\ chatLast.op = "deleteMessage"
    /\ Len(CurrentMessages) = 2
    /\ Len(streams) = 2

\* C15: handleEditMessage(messageId, newText) leaves the current session with the
\* messages before the edited one unchanged, then the edited message with its id and
\* role and the new text, then one new streaming placeholder, and nothing after it;
\* with an unknown messageId (or no current session) nothing changes.
C15_EditTruncatesAndRestarts ==
    [][ DidChat("edit") =>
          LET msgs == CurrentMessages
              i == FindMessage(msgs, chatLast'.mid)
              after == MessagesOf(sessions', currentSessionId)
          IN IF currentSessionId = 0 \/ i = 0
             THEN UNCHANGED <<sessions, currentSessionId, isStreaming, suggestions,
                              isGeneratingSuggestions, streams>>
             ELSE /\ Len(after) = i + 1
                  /\ \A j \in 1..(i - 1) : after[j] = msgs[j]
                  /\ after[i].id = msgs[i].id
                  /\ after[i].role = msgs[i].role
                  /\ after[i].text \in EditTexts
                  /\ after[i + 1].role = "model"
                  /\ after[i + 1].text = ""
                  /\ after[i + 1].isStreaming
                  /\ currentSessionId' = currentSessionId ]_vars

\* C15 witness: an edit of the first message of a two-turn conversation dropped
\* the three messages after it.
C15_Witness ==
    /\ chatLast.op = "edit"
    /\ Len(streams) = 3
    /\ Len(CurrentMessages) = 2
    /\ CurrentMessages[1].text \in EditTexts

\* C16 (as claimed): the error callback of a stream gives its placeholder an
\* error-prefixed text and isStreaming = FALSE, sets the streaming flag to FALSE,
\* produces no suggestions, and changes no other message of any session.
C16_ErrorTouchesOnlyPlaceholder ==
    [][ DidChat("error") =>
          /\ isStreaming' = FALSE
          /\ UNCHANGED <<suggestions, isGeneratingSuggestions, currentSessionId>>
          /\ \A k \in 1..Len(streams') : streams'[k].phase = "suggesting" =>
                 (k <= Len(streams) /\ streams[k].phase = "suggesting")
          /\ Len(sessions') = Len(sessions)
          /\ \A i \in 1..Len(sessions) :
                /\ sessions'[i].id = sessions[i].id
                /\ Len(sessions'[i].messages) = Len(sessions[i].messages)
                /\ \A j \in 1..Len(sessions[i].messages) :
                      LET m == sessions[i].messages[j]
                          m2 == sessions'[i].messages[j]
                      IN IF /\ sessions[i].id = chatLast'.sid
                            /\ m.id = chatLast'.mid
                            /\ m.role = "model"
                         THEN /\ m2.text \in {ErrorText(msg) : msg \in ErrorMessages}
                              /\ ~m2.isStreaming
                              /\ m2.id = m.id /\ m2.role = m.role
                         ELSE m2 = m ]_vars

(***************************************************************************)
(* Evaluation engine: properties                                           *)
(***************************************************************************)
DidEval(op) == evalLast'.op = op

\* C17: deleteSuite(id) removes every suite with that id and every run whose suiteId
\* is id; the other suites and the runs of other suites stay, unchanged and in order.
C17_DeleteSuiteCascades ==
    [][ DidEval("deleteSuite") =>
          /\ \A i \in 1..Len(suites') : suites'[i].id # evalLast'.id
          /\ \A i \in 1..Len(runs') : runs'[i].suiteId # evalLast'.id
          /\ suites' = SelectSeq(suites, LAMBDA x : x.id # evalLast'.id)
          /\ LET kept == {i \in 1..Len(runs) : runs[i].suiteId # evalLast'.id}
             IN /\ Len(runs') = Cardinality(kept)
                /\ \A i \in kept :
                      runs'[Cardinality({j \in kept : j <= i})] = runs[i] ]_vars

\* C17 witness: a suite with a run was deleted while the run of another suite stayed.
C17_Witness ==
    /\ evalLast.op = "deleteSuite"
    /\ evalLast.id = -1
    /\ Len(suites) = 1
    /\ runs = <<StoredRuns[2]>>

\* C18: runSuite for an id that matches no suite, or for a suite with zero cases,
\* changes nothing: no run starts, no remote call is made, no run is recorded and
\* isRunning keeps its value.
C18_RunSuiteGuardNoOp ==
    [][ (DidEval("runSuite")
           /\ (\/ FindSuite(suites, evalLast'.id) = 0
               \/ suites[FindSuite(suites, evalLast'.id)].cases = <<>>))
          => UNCHANGED <<suites, runs, isRunning, evalProcs, remote, baseUrl>> ]_vars

\* C18 witness: runSuite was called on the stored suite that has no cases.
C18_Witness ==
    /\ evalLast.op = "runSuite"
    /\ evalLast.id = -2
    /\ FindSuite(suites, -2) # 0
    /\ suites[FindSuite(suites, -2)].cases = <<>>

\* C19: runSuite that passes its guards on a suite whose cases all have blank input
\* (no character, or whitespace only) makes no remote call and no judge call, and
\* records in the same step a run with no results and overallScore 0.
C19_BlankSuiteRunsEmpty ==
    [][ (DidEval("runSuite")
           /\ baseUrl # ""
           /\ FindSuite(suites, evalLast'.id) # 0
           /\ suites[FindSuite(suites, evalLast'.id)].cases # <<>>
           /\ \A i \in 1..Len(suites[FindSuite(suites, evalLast'.id)].cases) :
                  \A k \in 1..Len(suites[FindSuite(suites, evalLast'.id)].cases[i].input) :
                      suites[FindSuite(suites, evalLast'.id)].cases[i].input[k] \in Whitespace)
          => /\ remote' = remote
             /\ evalProcs' = evalProcs
             /\ Len(runs') = Len(runs) + 1
             /\ runs'[1].suiteId = evalLast'.id
             /\ runs'[1].results = <<>>
             /\ runs'[1].overallScore = 0 ]_vars

\* C19 witness: a run without results was recorded for a suite of two blank cases.
C19_Witness ==
    /\ evalLast.op = "runSuite"
    /\ runs # <<>>
    /\ runs[1].results = <<>>
    /\ runs[1].overallScore = 0
    /\ FindSuite(suites, runs[1].suiteId) # 0
    /\ Len(suites[FindSuite(suites, runs[1].suiteId)].cases) = 2

\* C20: the overallScore of every run is the integer nearest to the mean of the
\* scores of its results (a half rounds up), 0 when it has no results; the scores
\* 80, 60, 100 give 80.
C20_OverallScoreIsRoundedMean ==
    /\ \A i \in 1..Len(runs) :
          LET n == Len(runs[i].results)
              total == SumScores(runs[i].results)
              r == runs[i].overallScore
          IN IF n = 0 THEN r = 0
             ELSE /\ 2 * n * r - n <= 2 * total
                  /\ 2 * total < 2 * n * r + n
    /\ AvgScore(<<[score |-> 80], [score |-> 60], [score |-> 100]>>) = 80

\* C20 witness: a run whose mean is not an integer (60 and 75 give 67.5, recorded
\* as 68).
C20_Witness ==
    /\ runs # <<>>
    /\ Len(runs[1].results) = 2
    /\ SumScores(runs[1].results) = 135
    /\ runs[1].overallScore = 68

(***************************************************************************)
(* Evaluation runs: cases that throw, session pairing, recorded runs       *)
(***************************************************************************)
RunContinuations ==
    {"createSessionResolved", "createSessionRejected", "streamCompleted", "streamErrored",
     "deleteSessionResolved", "deleteSessionRejected", "judgeResolved"}

Threw == {"createSessionRejected", "deleteSessionRejected"}

\* the step is a continuation of run p that ends the run
Finishes(p) ==
    /\ evalLast'.op \in RunContinuations
    /\ Len(evalProcs') = Len(evalProcs) - 1
    /\ evalProcs' = RemoveAt(evalProcs, p)

\* the step is a continuation of run p that leaves it running
Continues(p) ==
    /\ evalLast'.op \in RunContinuations
    /\ Len(evalProcs') = Len(evalProcs)
    /\ evalProcs'[p] # evalProcs[p]

\* the results run p holds after the step
ResultsAfter(p) == IF Finishes(p) THEN runs'[1].results ELSE evalProcs'[p].results

IdsOf(results) == [i \in 1..Len(results) |-> results[i].testCaseId]

CaseIds(cases) == [i \in 1..Len(cases) |-> cases[i].id]

ErrorTexts == {ErrorText(msg) : msg \in ErrorMessages}

\* C21: a case whose processing throws (createSession or deleteSession rejected)
\* adds nothing to the results and the run goes on with the next case that has
\* input, or ends by recording the run; the results of a recorded run are, in suite
\* order, exactly the entries of the cases with input that did not throw, each
\* tagged with its case id.
C21_ThrowingCaseIsAbsent ==
    [][ \A p \in 1..Len(evalProcs) :
          LET proc == evalProcs[p]
              thrown == proc.thrown \cup
                            (IF evalLast'.op \in Threw THEN {proc.cases[proc.idx].id} ELSE {})
              judged == SelectSeq(proc.cases,
                                  LAMBDA c : ~IsBlank(c.input) /\ c.id \notin thrown)
          IN /\ (Continues(p) /\ evalLast'.op \in Threw)
                   => /\ evalProcs'[p].results = proc.results
                      /\ evalProcs'[p].idx = NextCase(proc.cases, proc.idx + 1)
                      /\ evalProcs'[p].pc = "createSession"
                      /\ runs' = runs
             /\ Finishes(p)
                   => /\ Len(runs') = Len(runs) + 1
                      /\ IdsOf(runs'[1].results) = CaseIds(judged)
                      /\ (evalLast'.op \in Threw => runs'[1].results = proc.results) ]_vars

\* C21 witness: a run of the three-case suite was recorded with the result of the
\* third case only: the first case threw, the second is blank.
C21_Witness ==
    /\ evalLast.op = "judgeResolved"
    /\ runs # <<>>
    /\ IdsOf(runs[1].results) = <<3>>

\* C22 (as claimed): when deleteSession of a case is rejected, the judge is still
\* called for that case.
C22_DeleteFailureStillJudged ==
    [][ DidEval("deleteSessionRejected") => remote'.judged = remote.judged + 1 ]_vars

\* C23: in every run the cases are taken in suite order, a run has at most one
\* session whose deleteSession call has not returned, none when it calls
\* createSession for the next case and none when it ends.
C23_OneSessionAtATime ==
    [][ /\ \A p \in 1..Len(evalProcs') :
              /\ evalProcs'[p].open \in {0, 1}
              /\ evalProcs'[p].pc = "createSession" => evalProcs'[p].open = 0
              /\ evalProcs'[p].pc = "stream" => evalProcs'[p].open = 1
        /\ \A p \in 1..Len(evalProcs) :
              /\ Continues(p)
                    => /\ evalProcs'[p].idx >= evalProcs[p].idx
                       /\ evalProcs'[p].idx > evalProcs[p].idx
                             => /\ evalProcs'[p].pc = "createSession"
                                /\ \A i \in (evalProcs[p].idx + 1)..(evalProcs'[p].idx - 1) :
                                       IsBlank(evalProcs[p].cases[i].input)
              /\ Finishes(p)
                    => evalProcs[p].open =
                           (IF evalLast'.op \in {"deleteSessionResolved", "deleteSessionRejected"}
                            THEN 1 ELSE 0) ]_vars

\* C23 witness: a run is streaming its third case in the second session it created.
C23_Witness ==
    /\ remote.created = 2
    /\ \E p \in 1..Len(evalProcs) :
          /\ evalProcs[p].idx = 3
          /\ evalProcs[p].pc = "stream"
          /\ evalProcs[p].open = 1

\* C24: a run that completes puts exactly one EvaluationRun at index 0 of runs,
\* with the suite id and name and the agent id, name and version that runSuite was
\* called with; no step changes a run that is already recorded, and the only steps
\* that remove runs are deleteSuite calls, which remove the runs of that suite.
C24_RunsAreImmutable ==
    [][ /\ Len(runs') <= Len(runs) + 1
        /\ LET old == IF Len(runs') > Len(runs) THEN Tail(runs') ELSE runs'
           IN \/ old = runs
              \/ /\ DidEval("deleteSuite")
                 /\ old = SelectSeq(runs, LAMBDA r : r.suiteId # evalLast'.id)
        /\ \A p \in 1..Len(evalProcs) :
              Finishes(p)
                 => /\ Len(runs') = Len(runs) + 1
                    /\ runs'[1].suiteId = evalProcs[p].suiteId
                    /\ runs'[1].suiteNameSnapshot = evalProcs[p].suiteName
                    /\ runs'[1].agentId = evalProcs[p].agentId
                    /\ runs'[1].agentNameSnapshot = evalProcs[p].agentName
                    /\ runs'[1].agentVersionSnapshot = evalProcs[p].agentVersion
        /\ (DidEval("runSuite") /\ Len(evalProcs') > Len(evalProcs))
              => LET proc == evalProcs'[Len(evalProcs')]
                     suite == suites[FindSuite(suites, evalLast'.id)]
                 IN /\ proc.suiteId = suite.id
                    /\ proc.suiteName = suite.name
                    /\ \E a \in 1..Len(agents) :
                          /\ proc.agentId = agents[a].id
                          /\ proc.agentName = agents[a].name
                          /\ proc.agentVersion = agents[a].currentVersion ]_vars

\* C24 witness: the run of a renamed suite was recorded in front of the two stored
\* runs, which are as they were.
C24_Witness ==
    /\ Len(runs) = 3
    /\ runs[1].suiteNameSnapshot = "Renamed"
    /\ SubSeq(runs, 2, 3) = StoredRuns

\* C29 (as claimed): a stream that ends with the error callback sets actualOutput
\* to "Error: " and the message without ending the run, and a run that leaves a
\* case whose actualOutput is such an error text has added the result of that case.
C29_StreamErrorStillJudged ==
    [][ /\ DidEval("streamErrored")
              => /\ runs' = runs
                 /\ isRunning' = isRunning
                 /\ Len(evalProcs') = Len(evalProcs)
                 /\ \A p \in 1..Len(evalProcs) :
                        Continues(p) => evalProcs'[p].actualOutput \in ErrorTexts
        /\ \A p \in 1..Len(evalProcs) :
              (/\ evalProcs[p].actualOutput \in ErrorTexts
               /\ Finishes(p) \/ (Continues(p) /\ evalProcs'[p].idx # evalProcs[p].idx))
                 => /\ Len(ResultsAfter(p)) = Len(evalProcs[p].results) + 1
                    /\ ResultsAfter(p)[Len(ResultsAfter(p))].testCaseId =
                           evalProcs[p].cases[evalProcs[p].idx].id
                    /\ ResultsAfter(p)[Len(ResultsAfter(p))].actualOutput =
                           evalProcs[p].actualOutput ]_vars

(***************************************************************************)
(* Agent registry: the persisted slot                                      *)
(***************************************************************************)
\* obj[key] reads undefined: the object has no such property, or holds undefined
ReadsUndefined(obj, key) ==
    key \notin DOMAIN obj \/ (key \in OptionalKeys /\ IsUndefined(obj[key]))

\* deep equality of two objects as JavaScript reads them: every property reads
\* the same value in both
SameObject(a, b) ==
    \A k \in (DOMAIN a) \cup (DOMAIN b) :
        /\ ReadsUndefined(a, k) <=> ReadsUndefined(b, k)
        /\ ~ReadsUndefined(a, k) => a[k] = b[k]

\* C28 (as claimed): after every registry operation, what the load effect reads
\* from the persisted slot is deeply equal to the registry in memory: the same
\* agents in the same order, each with or without draftConfig as in memory.
C28_ReloadReproducesRegistry ==
    LET loaded == LoadAgents(agentsSlot)
    IN /\ Len(loaded) = Len(agents)
       /\ \A i \in 1..Len(agents) : SameObject(loaded[i], agents[i])

(***************************************************************************)
(* Judge: properties                                                       *)
(***************************************************************************)
\* C25 (as claimed): every result evaluateTestCase returned has pass = TRUE exactly
\* when its score is at least 70.
C25_PassIffScoreAtLeast70 ==
    judge.result # NoResult => (judge.result.pass <=> judge.result.score >= 70)

FailureReasonings ==
    {"Evaluation failed due to API error or parsing issue."}

JudgeRejections == {"listAgentsRejected", "judgeSessionRejected", "judgeDeleteRejected"}

\* C26 (as claimed): every call of evaluateTestCase that meets a transport failure
\* (listAgents, createSession or deleteSession rejected, the stream ended with the
\* error callback) or a text that does not parse returns the fallback result:
\* score 0, pass FALSE, a reasoning that describes the failure.
C26_FailureGivesFallback ==
    [][ (/\ judge.pc # "idle"
         /\ judge'.pc = "idle"
         /\ \/ evalLast'.op \in JudgeRejections
            \/ judge.streamError
            \/ ~Parses(StripFences(judge.jsonResult)))
          => /\ judge'.result.score = 0
             /\ judge'.result.pass = FALSE
             /\ judge'.result.actualOutput = judge.actualOutput
             /\ judge'.result.reasoning \in FailureReasonings ]_vars

(***************************************************************************)
(* Playgrounds: properties                                                 *)
(***************************************************************************)
\* the messages with id mid in the sessions with id sid
PlayMessagesOf(ss, sid, mid) ==
    UNION { {ss[i].messages[j] : j \in {n \in 1..Len(ss[i].messages) :
                                            ss[i].messages[n].id = mid}} :
            i \in {n \in 1..Len(ss) : ss[n].id = sid} }

\* C30 (as claimed): when a playground send fails remotely (createSession rejected,
\* or the stream ends with the error callback), its placeholder shows a text that
\* starts with "Error: " and has isStreaming = FALSE; when no other stream is in
\* flight and the streaming flag is FALSE, no message is left with isStreaming =
\* TRUE.  Both for the playground of the workbench and for that of the editor.
C30_FailureEndsStreaming ==
    [][ /\ \A k \in 1..Len(playStreams) :
              (/\ evalLast'.op \in {"playSessionRejected", "playErrored"}
               /\ playStreams' = RemoveAt(playStreams, k))
                 => /\ \A m \in PlayMessagesOf(playSessions', playStreams[k].sessionId,
                                               playStreams[k].botMsgId) :
                           m.text \in ErrorTexts /\ ~m.isStreaming
                    /\ (playStreams' = <<>> /\ ~isPlayStreaming')
                          => \A i \in 1..Len(playSessions') :
                                 \A j \in 1..Len(playSessions'[i].messages) :
                                     ~playSessions'[i].messages[j].isStreaming
        /\ \A k \in 1..Len(editorStreams) :
              (/\ evalLast'.op = "editorErrored"
               /\ editorStreams' = RemoveAt(editorStreams, k))
                 => /\ \A j \in 1..Len(editorMessages') :
                           editorMessages'[j].id = editorStreams[k].botMsgId
                              => /\ editorMessages'[j].text \in ErrorTexts
                                 /\ ~editorMessages'[j].isStreaming
                    /\ (editorStreams' = <<>> /\ ~editorStreaming')
                          => \A j \in 1..Len(editorMessages') :
                                 ~editorMessages'[j].isStreaming ]_vars

(***************************************************************************)
(* Connection settings: properties                                         *)
(***************************************************************************)
NeedsBackend == {"runSuite", "handlePlaygroundSend", "runTests", "evaluateTestCase"}

\* C27: a call of runSuite, of the playground send, of the test-lab run or of the
\* judge while no base URL is configured makes no remote call and starts nothing:
\* no session is created, no run is recorded, the playground sessions keep their
\* messages, no run or stream is in flight that was not before and the three
\* running/streaming flags keep their values; the judge returns at once with its
\* "not configured" result.
C27_NoUrlAborts ==
    [][ (evalLast'.op \in NeedsBackend /\ evalOps' = evalOps + 1 /\ baseUrl = "")
          => /\ remote' = remote
             /\ UNCHANGED <<runs, evalProcs, isRunning>>
             /\ UNCHANGED <<playSessions, playStreams, isPlayStreaming>>
             /\ UNCHANGED <<labProcs, labResults, labIsRunning>>
             /\ IF evalLast'.op = "evaluateTestCase"
                THEN /\ judge'.pc = "idle"
                     /\ judge'.result = NotConfiguredResult(judge'.actualOutput)
                ELSE judge' = judge ]_vars

\* C27 witness: with no base URL configured an operation that needs the backend
\* was called; nothing is in flight and no flag is set.
C27_Witness ==
    /\ baseUrl = ""
    /\ evalLast.op \in NeedsBackend
    /\ remote.created = 0
    /\ ~isRunning /\ ~isPlayStreaming /\ ~labIsRunning

(***************************************************************************)
(* Agent registry: frame of publishDraft                                   *)
(***************************************************************************)
\* C31 (as claimed): whatever partial agent saveDraft was given, publishDraft leaves
\* the id, the model and the testCases of every agent as they were.
C31_PublishKeepsOtherFields ==
    [][ Did("publishDraft")
          => \A i \in 1..Len(agents) :
                /\ agents'[i].id = agents[i].id
                /\ agents'[i].model = agents[i].model
                /\ agents'[i].testCases = agents[i].testCases ]_vars

(***************************************************************************)
(* Judge: range of the score                                               *)
(***************************************************************************)
\* C32 (as claimed): every result evaluateTestCase returned has a score within
\* 0..100, whatever the judge backend answered, and every recorded run has an
\* overallScore within 0..100.
C32_ScoreWithinRange ==
    /\ judge.result # NoResult => judge.result.score \in 0..100
    /\ \A i \in 1..Len(runs) : runs[i].overallScore \in 0..100

(***************************************************************************)
(* Evaluation engine: termination of a run                                 *)
(***************************************************************************)
\* C33: when no await of a run stays pending for ever, every runSuite call that
\* passed its guards ends: as long as n runs are in flight, eventually fewer are;
\* a run leaves the engine only in a step that records exactly one EvaluationRun,
\* carrying that call's run id, at the head of runs and sets isRunning to FALSE,
\* and no run is recorded in any other way; this for every mix of per-case
\* failures.
C33_RunSuiteTerminates ==
    /\ \A n \in 1..MaxEvalOps : (Len(evalProcs) = n) ~> (Len(evalProcs) < n)
    /\ [][ /\ Len(evalProcs') < Len(evalProcs)
              => \E p \in 1..Len(evalProcs) :
                    /\ evalProcs' = RemoveAt(evalProcs, p)
                    /\ Len(runs') = Len(runs) + 1
                    /\ Tail(runs') = runs
                    /\ runs'[1].id = evalProcs[p].runId
                    /\ isRunning' = FALSE
           /\ Len(runs') > Len(runs)
              => /\ Len(runs') = Len(runs) + 1
                 /\ isRunning' = FALSE
                 /\ \/ Len(evalProcs') = Len(evalProcs) - 1
                    \/ DidEval("runSuite") /\ evalProcs' = evalProcs ]_vars

\* C33 witness: a run whose last case threw (deleteSession rejected) has just been
\* recorded; nothing is in flight and isRunning is FALSE.
C33_Witness ==
    /\ evalLast.op = "deleteSessionRejected"
    /\ evalProcs = <<>>
    /\ ~isRunning
    /\ runs # <<>>
    /\ runs[1].results = <<>>

\* C39 (as claimed): every recorded run's suiteId is the id of a suite that exists.
C39_RunsReferToExistingSuites ==
    \A i \in 1..Len(runs) : FindSuite(suites, runs[i].suiteId) # 0

(***************************************************************************)
(* Chat: session creation on send                                          *)
(***************************************************************************)
\* the text handleSendMessage was just called with: the text of the user message
\* it appended to the session it wrote to
SentText == LET m == sessions'[1].messages IN m[Len(m) - 1].text

\* the title the claim states for a text
ClaimedTitle(text) ==
    IF Len(Chars(text)) <= 30 THEN Chars(text)
    ELSE SubSeq(Chars(text), 1, 30) \o <<".", ".", ".">>

\* C34: handleSendMessage with no current session puts exactly one new session at
\* index 0: it is the current session, is bound to the active agent and its title is
\* the text when the text has at most 30 characters, otherwise the first 30
\* characters followed by an ellipsis; every other session of the list existed
\* before and is as it was.  With a current session no session is created (every
\* session of the list existed before, with its title).
C34_SendCreatesSession ==
    [][ DidChat("send")
          => IF currentSessionId = 0
             THEN /\ sessions' # <<>>
                  /\ sessions'[1].id = currentSessionId'
                  /\ sessions'[1].agentId = activeAgentId
                  /\ sessions'[1].title = ClaimedTitle(SentText)
                  /\ Len(sessions'[1].messages) = 2
                  /\ Len(sessions') <= Len(sessions) + 1
                  /\ \A i \in 2..Len(sessions') :
                        \E j \in 1..Len(sessions) : sessions'[i] = sessions[j]
             ELSE /\ currentSessionId' = currentSessionId
                  /\ Len(sessions') <= Len(sessions)
                  /\ \A i \in 1..Len(sessions') :
                        \E j \in 1..Len(sessions) :
                            /\ sessions'[i].id = sessions[j].id
                            /\ sessions'[i].title = sessions[j].title
                            /\ sessions'[i].agentId = sessions[j].agentId ]_vars

\* C34 witness: a send of a text of 31 characters has created a session next to an
\* older one; its title is cut and ends with the ellipsis.
C34_Witness ==
    /\ chatLast.op = "send"
    /\ Len(sessions) = 2
    /\ sessions[1].id = currentSessionId
    /\ Len(sessions[1].messages) = 2
    /\ sessions[1].messages[1].text = Text31
    /\ Len(sessions[1].title) = 33

(***************************************************************************)
(* Chat: frame of the stream callbacks                                     *)
(***************************************************************************)
\* message b is message a with at most its text and isStreaming changed
SameButText(a, b) ==
    /\ b.id = a.id
    /\ b.role = a.role
    /\ b.feedback = a.feedback

\* C35 (as claimed): a chunk, completion or error callback of a stream adds and
\* removes no session and no message; the only message it changes is the
\* placeholder (the model message with the stream's agentMsgId) in the session the
\* stream was started for, and of it only text and isStreaming; every other
\* session is left as it was and the stream's session changes besides that
\* message only in lastModified.
C35_CallbacksTouchOnlyPlaceholder ==
    [][ chatLast'.op \in StreamCallbacks
          => /\ Len(sessions') = Len(sessions)
             /\ \A i \in 1..Len(sessions) :
                   IF sessions[i].id # chatLast'.sid
                   THEN sessions'[i] = sessions[i]
                   ELSE /\ sessions'[i].id = sessions[i].id
                        /\ sessions'[i].title = sessions[i].title
                        /\ sessions'[i].agentId = sessions[i].agentId
                        /\ Len(sessions'[i].messages) = Len(sessions[i].messages)
                        /\ \A j \in 1..Len(sessions[i].messages) :
                              \/ sessions'[i].messages[j] = sessions[i].messages[j]
                              \/ /\ sessions[i].messages[j].id = chatLast'.mid
                                 /\ sessions[i].messages[j].role = "model"
                                 /\ SameButText(sessions[i].messages[j],
                                                sessions'[i].messages[j]) ]_vars

(***************************************************************************)
(* Chat: the isStreaming flag                                              *)
(***************************************************************************)
\* C36 (as claimed): whenever the chat manager's isStreaming flag is FALSE, no
\* message of any session has isStreaming = TRUE.
C36_FlagCoversStreamingMessages ==
    ~isStreaming
        => \A i \in 1..Len(sessions) :
              \A j \in 1..Len(sessions[i].messages) : ~sessions[i].messages[j].isStreaming

(***************************************************************************)
(* Chat: uniqueness of ids                                                 *)
(***************************************************************************)
\* C37 (as claimed): every session handleSendMessage creates has an id different
\* from the id of every session that existed, and in every reachable state the ids
\* of the messages of a session are pairwise distinct.
C37_IdsAreUnique ==
    /\ [][ (DidChat("send") /\ currentSessionId = 0)
             => \A i \in 1..Len(sessions) : sessions[i].id # currentSessionId' ]_vars
    /\ [](\A i \in 1..Len(sessions) :
             \A j, k \in 1..Len(sessions[i].messages) :
                 sessions[i].messages[j].id = sessions[i].messages[k].id => j = k)

(***************************************************************************)
(* Agent registry: version numbers                                         *)
(***************************************************************************)
\* C38: for every agent, in every reachable state every version in promptVersions
\* is at most currentVersion, the versions are pairwise distinct and the head
\* entry carries the largest one; and no step lowers the currentVersion of an
\* agent that is in the registry before and after it.
C38_VersionsBoundedByCurrent ==
    /\ [](\A i \in 1..Len(agents) :
             LET pv == agents[i].promptVersions
             IN /\ \A j \in 1..Len(pv) : pv[j].version <= agents[i].currentVersion
                /\ \A j, k \in 1..Len(pv) : pv[j].version = pv[k].version => j = k
                /\ \A j \in 1..Len(pv) : pv[j].version <= pv[1].version)
    /\ [][ \A i \in 1..Len(agents), k \in 1..Len(agents') :
              agents'[k].id = agents[i].id
                  => agents'[k].currentVersion >= agents[i].currentVersion ]_vars

\* C38 witness: an agent with two recorded versions whose currentVersion is larger
\* than the head version (a publish that recorded no entry came last).
C38_Witness ==
    \E i \in 1..Len(agents) :
        /\ Len(agents[i].promptVersions) = 2
        /\ agents[i].currentVersion > agents[i].promptVersions[1].version
        /\ regLast.op = "publishDraft"

(***************************************************************************)
(* Agent editor: discard and publish                                       *)
(***************************************************************************)
\* C40 (as claimed): when Discard Draft was clicked and nothing was typed or saved
\* with the Save Draft button since, a Publish (click and confirm) leaves the live
\* systemInstruction, currentVersion and promptVersions of the agent as they were.
C40_PublishAfterDiscardChangesNothing ==
    [][ (Did("confirmPublish") /\ form.sinceDiscard)
          => /\ agents'[1].systemInstruction = agents[1].systemInstruction
             /\ agents'[1].currentVersion = agents[1].currentVersion
             /\ agents'[1].promptVersions = agents[1].promptVersions ]_vars

====
